---- MODULE Spec2Model ----
(***************************************************************************)
(* Anvil region engine (src/src/region.rs): the header codec, the sector   *)
(* allocator and the chunk read / write paths of one Region handle over a  *)
(* seekable byte source.                                                   *)
(*                                                                         *)
(* The source is a byte file: its length, its cursor, and its content kept *)
(* as the slabs written (runs: which sectors hold which part of which      *)
(* tag's slab) plus the words written over them (ov).  Of every 4096-byte  *)
(* sector the model can tell the bytes the engine ever interprets: the     *)
(* big-endian words at byte 4*i of the modelled slots i and at byte 0 (a   *)
(* slab's length prefix, the header words) and byte 4 (a slab's scheme     *)
(* byte).  Lengths, offsets and the cursor are exact byte counts.  The     *)
(* build profile decides what integer overflow does: a panic with overflow *)
(* checks (debug), wrapping without (release).                             *)
(***************************************************************************)
EXTENDS Integers, Sequences, FiniteSets, TLC

VARIABLES
    region,          \* the Region struct: chunks_metadata, used_sectors, source
    overflow_checks, \* build profile: TRUE = debug (overflow panics), FALSE = release (wraps)
    panicked,        \* the thread unwound out of a call
    last,            \* history: the last call made, the slot's metadata before it, its result
    written,         \* history: per slot, the tag of the last write_chunk that returned Ok
    ops              \* history: number of calls made so far

vars == <<region, overflow_checks, panicked, last, written, ops>>

----------------------------------------------------------------------------
(* Bounds of the model *)

\* calls per behaviour
MaxOps == 3

----------------------------------------------------------------------------
(* Program constants, region.rs:12-26 *)

REGION_CHUNKS == 1024
REGION_HEADER_BYTES_LENGTH == 8 * REGION_CHUNKS
REGION_SECTOR_BYTES_LENGTH == 4096
CHUNK_MAXIMUM_BYTES_LENGTH == REGION_SECTOR_BYTES_LENGTH * 256
GZIP_COMPRESSION_TYPE == 1
ZLIB_COMPRESSION_TYPE == 2

\* integer widths; every u32, u64 and usize value of the model stays below 2^31,
\* so that only the u8 and u16 arithmetic can leave its type
U8 == 2 ^ 8
U16 == 2 ^ 16

\* v itself; comparing it makes TLC compute the value once, where it is built
Evaluated(v) == IF v = v THEN v ELSE v

Min(a, b) == IF a < b THEN a ELSE b
Max(a, b) == IF a > b THEN a ELSE b

----------------------------------------------------------------------------
(* Inputs *)

\* region-local chunk coordinates <<x, z>> the calls are made with
Coords == {<<0, 0>>, <<15, 15>>, <<2, 0>>}

\* what the system clock returns (seconds, as u32) during call number n: a
\* second passes between two calls
Epoch == 1570215508
Timestamps(n) == {Epoch + n}

\* A CompoundTag, seen through write_zlib_compound_tag: id names the tag,
\* zlen is the number of bytes of its zlib stream and fill the value of the
\* stream's bytes wherever the engine could come to interpret one.
Tag(id, zlen, fill) == [id |-> id, zlen |-> zlen, fill |-> fill]
NoTag == Tag(0, 0, 0)

\* slab length L = 4 + 1 + zlen of the tags written
Tags ==
    { Tag(1, 95, 16909060),                             \* L = 100: one sector
      Tag(2, 195, 84281096),                            \* L = 200: one sector
      Tag(3, REGION_SECTOR_BYTES_LENGTH - 5, 16909060), \* L = 4096: two sectors, L mod 4096 = 0
      Tag(4, 15 * REGION_SECTOR_BYTES_LENGTH - 5, 3),   \* L = 61440: sixteen sectors
      Tag(5, 255 * REGION_SECTOR_BYTES_LENGTH - 5, 3),  \* L = 1044480: floor(L/4096) = 255
      Tag(6, CHUNK_MAXIMUM_BYTES_LENGTH - 5, 3),        \* L = 1 MiB exactly
      Tag(7, CHUNK_MAXIMUM_BYTES_LENGTH - 4, 3) }       \* L = 1 MiB + 1

----------------------------------------------------------------------------
(* region.rs:49-60 *)

metadata_index(region_chunk_x, region_chunk_z) ==
    region_chunk_x + region_chunk_z * 32

Slots == {metadata_index(c[1], c[2]) : c \in Coords}

\* word indices (byte offset / 4 inside a sector) the model keeps
Words == {0} \cup Slots

----------------------------------------------------------------------------
(* The byte source: std::io::Cursor<Vec<u8>> / std::fs::File                *)
(*                                                                          *)
(*   len, pos  length and cursor, in bytes                                  *)
(*   runs      the slab parts the sectors hold: a run says that the sectors *)
(*             [from, to) hold the parts from - base .. to - base - 1 of    *)
(*             the slab of `tag`; a sector in no run holds zero bytes       *)
(*   ov        the words written over that: <<sector, word index>> |->      *)
(*             value, kept only where the value differs from what the runs  *)
(*             give                                                         *)

SectorsOf(length) ==
    (length + REGION_SECTOR_BYTES_LENGTH - 1) \div REGION_SECTOR_BYTES_LENGTH

\* Sector number `part` of the slab of `tag`: 4-byte length, scheme byte,
\* zlib stream, zero padding (region.rs:213-221).  A byte at slab offset o
\* belongs to the stream when 5 <= o < 5 + zlen.
SlabWord(tag, part, j) ==
    LET o == part * REGION_SECTOR_BYTES_LENGTH + 4 * j
    IN  IF o = 0 THEN tag.zlen + 1
        ELSE IF o < tag.zlen + 5 THEN tag.fill
        ELSE 0

SlabByte4(tag, part) ==
    LET o == part * REGION_SECTOR_BYTES_LENGTH + 4
    IN  IF o = 4 THEN ZLIB_COMPRESSION_TYPE
        ELSE IF o < tag.zlen + 5 THEN tag.fill % U8
        ELSE 0

Run(base, from, to, tag) == [base |-> base, from |-> from, to |-> to, tag |-> tag]

Covering(runs, s) == {r \in runs : r.from <= s /\ s < r.to}

\* word j of sector s as the runs give it
BaseWord(runs, s, j) ==
    IF Covering(runs, s) = {} THEN 0
    ELSE LET r == CHOOSE r \in Covering(runs, s) : TRUE
         IN  SlabWord(r.tag, s - r.base, j)

\* the big-endian word at byte 4 * j of sector s
WordAt(source, s, j) ==
    IF <<s, j>> \in DOMAIN source.ov THEN source.ov[<<s, j>>]
    ELSE BaseWord(source.runs, s, j)

\* byte 4 of sector s; no word the engine writes touches it
Byte4At(source, s) ==
    IF Covering(source.runs, s) = {} THEN 0
    ELSE LET r == CHOOSE r \in Covering(source.runs, s) : TRUE
         IN  SlabByte4(r.tag, s - r.base)

\* the runs without the sectors [a, b)
Clip(runs, a, b) ==
    {[r EXCEPT !.to = Min(r.to, a)] : r \in {r \in runs : r.from < a}}
        \cup {[r EXCEPT !.from = Max(r.from, b)] : r \in {r \in runs : r.to > b}}

EmptySource == [len |-> 0, pos |-> 0, runs |-> {}, ov |-> <<>>]

\* Seek::seek(SeekFrom::Start(offset))
seek_start(source, offset) == [source EXCEPT !.pos = offset]
\* Seek::seek(SeekFrom::End(0))
seek_end(source) == [source EXCEPT !.pos = source.len]
\* Seek::seek(SeekFrom::Current(delta))
seek_current(source, delta) == [source EXCEPT !.pos = source.pos + delta]

\* the bytes a write_all carries: the slab of tag laid out from sector base
\* on, or (for NoTag) the word `value` repeated
Data(tag, base, value) == [tag |-> tag, base |-> base, value |-> value]
DataWord(data, s, j) ==
    IF data.tag = NoTag THEN data.value ELSE SlabWord(data.tag, s - data.base, j)

\* Write::write_all of n bytes at the cursor, after which the sectors hold
\* new_runs and the words inside the written bytes have the value data
\* gives; the words of the first and last sector outside them keep theirs
Overwrite(source, n, new_runs, data) ==
    LET end == source.pos + n
        first == source.pos \div REGION_SECTOR_BYTES_LENGTH
        final == (end - 1) \div REGION_SECTOR_BYTES_LENGTH
        Inside(k) == source.pos <= k[1] * REGION_SECTOR_BYTES_LENGTH + 4 * k[2]
                     /\ k[1] * REGION_SECTOR_BYTES_LENGTH + 4 * k[2] < end
        keys == DOMAIN source.ov \cup ({first, final} \X Words)
        Value(k) == IF Inside(k) THEN DataWord(data, k[1], k[2])
                    ELSE WordAt(source, k[1], k[2])
    IN  [len |-> Max(source.len, end), pos |-> end, runs |-> Evaluated(new_runs),
         ov |-> Evaluated([k \in {k \in keys : Value(k) # BaseWord(new_runs, k[1], k[2])}
                              |-> Value(k)])]

\* Write::write_all(&vec![0; n]) at the cursor, as the engine calls it: at the
\* end of the source or right behind a slab's stream
write_zeros(source, n) ==
    LET end == source.pos + n
        whole_from == SectorsOf(source.pos)
        whole_to == end \div REGION_SECTOR_BYTES_LENGTH
    IN  IF n = 0 THEN source
        ELSE Overwrite(source, n,
                       IF whole_from < whole_to
                       THEN Clip(source.runs, whole_from, whole_to)
                       ELSE source.runs,
                       Data(NoTag, 0, 0))

\* WriteBytesExt::write_u32::<BigEndian>(value) at the cursor
write_u32(source, value) ==
    Overwrite(source, 4, source.runs, Data(NoTag, 0, value))

\* Write::write_all(&buffer) of write_chunk's buffer (scheme byte, then the
\* zlib stream of tag) at the cursor, which stands at byte 4 of a sector
write_buffer(source, tag) ==
    LET n == 1 + tag.zlen
        first == source.pos \div REGION_SECTOR_BYTES_LENGTH
        final == (source.pos + n - 1) \div REGION_SECTOR_BYTES_LENGTH
    IN  Overwrite(source, n,
                  Clip(source.runs, first, final + 1)
                      \cup {Run(first, first, final + 1, tag)},
                  Data(tag, first, 0))

\* ReadBytesExt::read_u32::<BigEndian>() at the cursor
read_u32(source) ==
    LET s == source.pos \div REGION_SECTOR_BYTES_LENGTH
        j == (source.pos % REGION_SECTOR_BYTES_LENGTH) \div 4
    IN  IF source.pos + 4 > source.len
        THEN [ok |-> FALSE, value |-> 0, source |-> source]
        ELSE [ok |-> TRUE, value |-> WordAt(source, s, j),
              source |-> [source EXCEPT !.pos = @ + 4]]

\* ReadBytesExt::read_u8() at the cursor, which read_chunk leaves at byte 4
\* of a sector
read_u8(source) ==
    LET s == source.pos \div REGION_SECTOR_BYTES_LENGTH
    IN  IF source.pos + 1 > source.len
        THEN [ok |-> FALSE, value |-> 0, source |-> source]
        ELSE [ok |-> TRUE, value |-> Byte4At(source, s),
              source |-> [source EXCEPT !.pos = @ + 1]]

\* region.rs:391-403
len(source) ==
    LET old_pos == source.pos
        s1 == seek_start(source, 0)
        s2 == seek_end(s1)
        length == s2.pos
    IN  [len |-> length,
         source |-> IF old_pos # length THEN seek_start(s2, old_pos) ELSE s2]

\* region.rs:410-427
extend_len(source, new_len) ==
    LET old_pos == source.pos
        s1 == seek_start(source, 0)
        s2 == seek_end(s1)
        length == s2.pos
        s3 == IF new_len > length THEN write_zeros(s2, new_len - length) ELSE s2
    IN  IF old_pos # length THEN seek_start(s3, old_pos) ELSE s3

----------------------------------------------------------------------------
(* nbt crate: read_zlib_compound_tag / read_gzip_compound_tag over the      *)
(* `length - 1` bytes read_chunk took from byte 5 of sector `start`.  The   *)
(* zlib decoder yields the tag whose complete stream the buffer starts      *)
(* with; the streams of this model are zlib streams, never gzip ones, so    *)
(* the gzip decoder always fails.  A TagDecodeError wraps the error of the  *)
(* decoder that failed.                                                     *)

\* the sectors from start on hold the whole stream of tag, untouched
StreamIntact(source, start, tag) ==
    /\ \A k \in 0 .. SectorsOf(5 + tag.zlen) - 1 :
          \E r \in Covering(source.runs, start + k) : r.tag = tag /\ r.base = start
    /\ \A key \in DOMAIN source.ov :
          LET o == (key[1] - start) * REGION_SECTOR_BYTES_LENGTH + 4 * key[2]
          IN  ~(5 <= o + 3 /\ o < 5 + tag.zlen)

read_zlib_compound_tag(source, start, buffer_len) ==
    LET heads == {r \in Covering(source.runs, start) : r.base = start}
    IN  IF \E r \in heads : r.tag.zlen <= buffer_len /\ StreamIntact(source, start, r.tag)
        THEN [kind |-> "Ok", tag |-> (CHOOSE r \in heads : TRUE).tag]
        ELSE [kind |-> "TagDecodeError", decoder |-> "zlib"]

read_gzip_compound_tag(source, start, buffer_len) ==
    [kind |-> "TagDecodeError", decoder |-> "gzip"]

----------------------------------------------------------------------------
(* region.rs:354-384 *)

ChunkMetadata_new(start_sector_index, sectors, last_modified_timestamp) ==
    [start_sector_index |-> start_sector_index, sectors |-> sectors,
     last_modified_timestamp |-> last_modified_timestamp]

ChunkMetadata_default == ChunkMetadata_new(0, 0, 0)

is_empty(metadata) == metadata.sectors = 0

\* region.rs:44-46
get_metadata(r, region_chunk_x, region_chunk_z) ==
    r.chunks_metadata[metadata_index(region_chunk_x, region_chunk_z)]

\* used_sectors without the two header sectors set (lines 67-68 left out)
used_sectors_header_free(total_sectors, chunks_metadata) ==
    LET InRange(index) ==
            \E i \in DOMAIN chunks_metadata :
                /\ ~is_empty(chunks_metadata[i])
                /\ chunks_metadata[i].start_sector_index <= index
                /\ index < chunks_metadata[i].start_sector_index + chunks_metadata[i].sectors
    IN  [panic |-> \/ total_sectors < 2
                   \/ \E i \in DOMAIN chunks_metadata :
                        /\ ~is_empty(chunks_metadata[i])
                        /\ chunks_metadata[i].start_sector_index + chunks_metadata[i].sectors
                             > total_sectors,
         bits |-> [index \in 1 .. total_sectors |-> InRange(index - 1)]]

\* region.rs:63-84; bit `index` of the BitVec is element index + 1 of the
\* sequence, and BitVec::set panics on an index outside it
used_sectors(total_sectors, chunks_metadata) ==
    LET InRange(index) ==
            \E i \in DOMAIN chunks_metadata :
                /\ ~is_empty(chunks_metadata[i])
                /\ chunks_metadata[i].start_sector_index <= index
                /\ index < chunks_metadata[i].start_sector_index + chunks_metadata[i].sectors
    IN  [panic |-> \/ total_sectors < 2
                   \/ \E i \in DOMAIN chunks_metadata :
                        /\ ~is_empty(chunks_metadata[i])
                        /\ chunks_metadata[i].start_sector_index + chunks_metadata[i].sectors
                             > total_sectors,
         bits |-> [index \in 1 .. total_sectors |-> index - 1 \in {0, 1} \/ InRange(index - 1)]]

\* region.rs:153-181: 2048 words from the cursor on
read_header(source, source_len) ==
    LET values(index) ==
            read_u32([source EXCEPT !.pos = @ + 4 * index]).value
        offset(index) == values(index)
    IN  IF REGION_HEADER_BYTES_LENGTH > source_len
        THEN [ok |-> TRUE, source |-> source,
              chunks_metadata |-> [index \in Slots |-> ChunkMetadata_default]]
        ELSE IF source.pos + 4 * 2 * REGION_CHUNKS > source.len
        THEN [ok |-> FALSE, source |-> source,
              chunks_metadata |-> [index \in Slots |-> ChunkMetadata_default]]
        ELSE [ok |-> TRUE,
              source |-> [source EXCEPT !.pos = @ + 4 * 2 * REGION_CHUNKS],
              chunks_metadata |-> [index \in Slots |->
                  ChunkMetadata_new(offset(index) \div U8, offset(index) % U8,
                                    values(REGION_CHUNKS + index))]]

\* load that counts the sectors of a source of any length (lines 91-96
\* without the comparison with the header's length)
load_counts_sectors(source) ==
    LET l == len(source)
        source_len == l.len
        h == read_header(l.source, source_len)
        total_sectors ==
            (source_len + (REGION_SECTOR_BYTES_LENGTH - 1)) \div REGION_SECTOR_BYTES_LENGTH
        u == used_sectors(total_sectors, h.chunks_metadata)
    IN  [res |-> IF ~h.ok THEN "IOError" ELSE IF u.panic THEN "panic" ELSE "Ok",
         region |-> [source |-> h.source, chunks_metadata |-> h.chunks_metadata,
                     used_sectors |-> u.bits]]

\* load that extends a short source to the header's length itself
load_extends_source(source) ==
    LET l == len(source)
        s1 == IF REGION_HEADER_BYTES_LENGTH > l.len
              THEN extend_len(l.source, REGION_HEADER_BYTES_LENGTH)
              ELSE l.source
        h == read_header(s1, l.len)
        total_sectors ==
            IF l.len > REGION_HEADER_BYTES_LENGTH
            THEN (l.len + (REGION_SECTOR_BYTES_LENGTH - 1)) \div REGION_SECTOR_BYTES_LENGTH
            ELSE 2
        u == used_sectors(total_sectors, h.chunks_metadata)
    IN  [res |-> IF ~h.ok THEN "IOError" ELSE IF u.panic THEN "panic" ELSE "Ok",
         region |-> [source |-> h.source, chunks_metadata |-> h.chunks_metadata,
                     used_sectors |-> u.bits]]

\* region.rs:87-109
load(source) ==
    LET l == len(source)
        source_len == l.len
        h == read_header(l.source, source_len)
        total_sectors ==
            IF source_len > REGION_HEADER_BYTES_LENGTH
            THEN (source_len + (REGION_SECTOR_BYTES_LENGTH - 1)) \div REGION_SECTOR_BYTES_LENGTH
            ELSE 2
        u == used_sectors(total_sectors, h.chunks_metadata)
    IN  [res |-> IF ~h.ok THEN "IOError" ELSE IF u.panic THEN "panic" ELSE "Ok",
         region |-> [source |-> h.source, chunks_metadata |-> h.chunks_metadata,
                     used_sectors |-> u.bits]]

\* read_chunk with the seek of line 129 made before the check of lines 118-123
read_chunk_seeks_first(r, region_chunk_x, region_chunk_z, checks) ==
    LET metadata == get_metadata(r, region_chunk_x, region_chunk_z)
        seek_offset == metadata.start_sector_index * REGION_SECTOR_BYTES_LENGTH
        maximum_length == Min(metadata.sectors * REGION_SECTOR_BYTES_LENGTH,
                              CHUNK_MAXIMUM_BYTES_LENGTH)
        s1 == seek_start(r.source, seek_offset)
        rl == read_u32(s1)
        length == rl.value
        rs == read_u8(rl.source)
        compression_scheme == rs.value
        \* `length - 1` in u32: 0 - 1 panics with overflow checks and wraps to
        \* 2^32 - 1 without, more bytes than the source holds
        buffer_len == length - 1
        s3 == [rs.source EXCEPT !.pos = @ + buffer_len]
        Ret(result, source) == [result |-> result, region |-> [r EXCEPT !.source = source]]
    IN  IF is_empty(metadata)
        THEN Ret([kind |-> "ChunkNotFound", region_chunk_x |-> region_chunk_x,
                  region_chunk_z |-> region_chunk_z], s1)
        ELSE IF ~rl.ok THEN Ret([kind |-> "IOError"], rl.source)
        ELSE IF length > maximum_length
        THEN Ret([kind |-> "LengthExceedsMaximum", length |-> length,
                  maximum_length |-> maximum_length], rl.source)
        ELSE IF ~rs.ok THEN Ret([kind |-> "IOError"], rs.source)
        ELSE IF length = 0 /\ checks THEN Ret([kind |-> "panic"], rs.source)
        ELSE IF length = 0 \/ s3.pos > s3.len THEN Ret([kind |-> "IOError"], rs.source)
        ELSE IF compression_scheme = GZIP_COMPRESSION_TYPE
        THEN Ret(read_gzip_compound_tag(r.source, metadata.start_sector_index, buffer_len), s3)
        ELSE IF compression_scheme = ZLIB_COMPRESSION_TYPE
        THEN Ret(read_zlib_compound_tag(r.source, metadata.start_sector_index, buffer_len), s3)
        ELSE Ret([kind |-> "UnsupportedCompressionScheme",
                  compression_scheme |-> compression_scheme], s3)

\* read_chunk with the limit of lines 126-127 not bounded by the slot's sectors
read_chunk_global_limit_only(r, region_chunk_x, region_chunk_z, checks) ==
    LET metadata == get_metadata(r, region_chunk_x, region_chunk_z)
        seek_offset == metadata.start_sector_index * REGION_SECTOR_BYTES_LENGTH
        maximum_length == CHUNK_MAXIMUM_BYTES_LENGTH
        s1 == seek_start(r.source, seek_offset)
        rl == read_u32(s1)
        length == rl.value
        rs == read_u8(rl.source)
        compression_scheme == rs.value
        \* `length - 1` in u32: 0 - 1 panics with overflow checks and wraps to
        \* 2^32 - 1 without, more bytes than the source holds
        buffer_len == length - 1
        s3 == [rs.source EXCEPT !.pos = @ + buffer_len]
        Ret(result, source) == [result |-> result, region |-> [r EXCEPT !.source = source]]
    IN  IF is_empty(metadata)
        THEN Ret([kind |-> "ChunkNotFound", region_chunk_x |-> region_chunk_x,
                  region_chunk_z |-> region_chunk_z], r.source)
        ELSE IF ~rl.ok THEN Ret([kind |-> "IOError"], rl.source)
        ELSE IF length > maximum_length
        THEN Ret([kind |-> "LengthExceedsMaximum", length |-> length,
                  maximum_length |-> maximum_length], rl.source)
        ELSE IF ~rs.ok THEN Ret([kind |-> "IOError"], rs.source)
        ELSE IF length = 0 /\ checks THEN Ret([kind |-> "panic"], rs.source)
        ELSE IF length = 0 \/ s3.pos > s3.len THEN Ret([kind |-> "IOError"], rs.source)
        ELSE IF compression_scheme = GZIP_COMPRESSION_TYPE
        THEN Ret(read_gzip_compound_tag(r.source, metadata.start_sector_index, buffer_len), s3)
        ELSE IF compression_scheme = ZLIB_COMPRESSION_TYPE
        THEN Ret(read_zlib_compound_tag(r.source, metadata.start_sector_index, buffer_len), s3)
        ELSE Ret([kind |-> "UnsupportedCompressionScheme",
                  compression_scheme |-> compression_scheme], s3)

\* read_chunk that drops the table entry of a slot it could not read
read_chunk_forgets_unreadable(r, region_chunk_x, region_chunk_z, checks) ==
    LET metadata == get_metadata(r, region_chunk_x, region_chunk_z)
        seek_offset == metadata.start_sector_index * REGION_SECTOR_BYTES_LENGTH
        maximum_length == Min(metadata.sectors * REGION_SECTOR_BYTES_LENGTH,
                              CHUNK_MAXIMUM_BYTES_LENGTH)
        s1 == seek_start(r.source, seek_offset)
        rl == read_u32(s1)
        length == rl.value
        rs == read_u8(rl.source)
        compression_scheme == rs.value
        \* `length - 1` in u32: 0 - 1 panics with overflow checks and wraps to
        \* 2^32 - 1 without, more bytes than the source holds
        buffer_len == length - 1
        s3 == [rs.source EXCEPT !.pos = @ + buffer_len]
        Ret(result, source) ==
            [result |-> result,
             region |-> [r EXCEPT !.source = source,
                                  !.chunks_metadata[metadata_index(region_chunk_x,
                                                                   region_chunk_z)] =
                                      IF result.kind = "Ok" THEN @
                                      ELSE ChunkMetadata_default]]
    IN  IF is_empty(metadata)
        THEN Ret([kind |-> "ChunkNotFound", region_chunk_x |-> region_chunk_x,
                  region_chunk_z |-> region_chunk_z], r.source)
        ELSE IF ~rl.ok THEN Ret([kind |-> "IOError"], rl.source)
        ELSE IF length > maximum_length
        THEN Ret([kind |-> "LengthExceedsMaximum", length |-> length,
                  maximum_length |-> maximum_length], rl.source)
        ELSE IF ~rs.ok THEN Ret([kind |-> "IOError"], rs.source)
        ELSE IF length = 0 /\ checks THEN Ret([kind |-> "panic"], rs.source)
        ELSE IF length = 0 \/ s3.pos > s3.len THEN Ret([kind |-> "IOError"], rs.source)
        ELSE IF compression_scheme = GZIP_COMPRESSION_TYPE
        THEN Ret(read_gzip_compound_tag(r.source, metadata.start_sector_index, buffer_len), s3)
        ELSE IF compression_scheme = ZLIB_COMPRESSION_TYPE
        THEN Ret(read_zlib_compound_tag(r.source, metadata.start_sector_index, buffer_len), s3)
        ELSE Ret([kind |-> "UnsupportedCompressionScheme",
                  compression_scheme |-> compression_scheme], s3)

\* region.rs:111-150
read_chunk(r, region_chunk_x, region_chunk_z, checks) ==
    LET metadata == get_metadata(r, region_chunk_x, region_chunk_z)
        seek_offset == metadata.start_sector_index * REGION_SECTOR_BYTES_LENGTH
        maximum_length == Min(metadata.sectors * REGION_SECTOR_BYTES_LENGTH,
                              CHUNK_MAXIMUM_BYTES_LENGTH)
        s1 == seek_start(r.source, seek_offset)
        rl == read_u32(s1)
        length == rl.value
        rs == read_u8(rl.source)
        compression_scheme == rs.value
        \* `length - 1` in u32: 0 - 1 panics with overflow checks and wraps to
        \* 2^32 - 1 without, more bytes than the source holds
        buffer_len == length - 1
        s3 == [rs.source EXCEPT !.pos = @ + buffer_len]
        Ret(result, source) == [result |-> result, region |-> [r EXCEPT !.source = source]]
    IN  IF is_empty(metadata)
        THEN Ret([kind |-> "ChunkNotFound", region_chunk_x |-> region_chunk_x,
                  region_chunk_z |-> region_chunk_z], r.source)
        ELSE IF ~rl.ok THEN Ret([kind |-> "IOError"], rl.source)
        ELSE IF length > maximum_length
        THEN Ret([kind |-> "LengthExceedsMaximum", length |-> length,
                  maximum_length |-> maximum_length], rl.source)
        ELSE IF ~rs.ok THEN Ret([kind |-> "IOError"], rs.source)
        ELSE IF length = 0 /\ checks THEN Ret([kind |-> "panic"], rs.source)
        ELSE IF length = 0 \/ s3.pos > s3.len THEN Ret([kind |-> "IOError"], rs.source)
        ELSE IF compression_scheme = GZIP_COMPRESSION_TYPE
        THEN Ret(read_gzip_compound_tag(r.source, metadata.start_sector_index, buffer_len), s3)
        ELSE IF compression_scheme = ZLIB_COMPRESSION_TYPE
        THEN Ret(read_zlib_compound_tag(r.source, metadata.start_sector_index, buffer_len), s3)
        ELSE Ret([kind |-> "UnsupportedCompressionScheme",
                  compression_scheme |-> compression_scheme], s3)

----------------------------------------------------------------------------
(* Integer arithmetic of the build: an overflowing +, - or * panics when     *)
(* overflow checks are on and wraps to the type's width when they are off.   *)

Overflows(value, width) == value < 0 \/ value >= width
Wrap(value, width) == value % width

----------------------------------------------------------------------------
(* region.rs:232-325 *)

\* SetRange that sets bits but never clears one (the loop of lines 252-256 left out)
SetRange_never_clears(bits, from, count, value) ==
    Evaluated([index \in 1 .. Len(bits) |->
        IF from <= index - 1 /\ index - 1 < from + count /\ value THEN TRUE ELSE bits[index]])

\* SetRange over [0, from + count): the loops of lines 252-256 and 278-282
\* counting from sector 0 instead of the range's first sector
SetRange_from_sector_zero(bits, from, count, value) ==
    Evaluated([index \in 1 .. Len(bits) |->
        IF count > 0 /\ index - 1 < from + count THEN value ELSE bits[index]])

\* BitVec::set(index, value) for every index of [from, from + count)
SetRange(bits, from, count, value) ==
    Evaluated([index \in 1 .. Len(bits) |->
        IF from <= index - 1 /\ index - 1 < from + count THEN value ELSE bits[index]])

\* region.rs:262-299, the loop over the sectors, by its outcome: "found" with
\* the index and free count at the hit, "end" with the free count the loop
\* ended with, or "panic".  sectors_free counts the free sectors in a row and
\* the loop returns the first time it equals sectors_required; as a u8 it
\* equals 0 only by 255 + 1 wrapping, which panics with overflow checks.
\* Indexing the BitVec outside its length panics.
scan_sectors(bits, total_sectors, sectors_required, checks) ==
    LET scanned == Min(total_sectors, Len(bits))
        row == IF sectors_required = 0 THEN U8 ELSE sectors_required
        Used(index) == index < 0 \/ bits[index + 1]
        Hit(index) == /\ Used(index - row)
                      /\ \A k \in index - row + 1 .. index : ~bits[k + 1]
        hits == {index \in row - 1 .. scanned - 1 : Hit(index)}
        first == CHOOSE index \in hits : \A other \in hits : index <= other
        tail == CHOOSE t \in 0 .. scanned :
                    /\ \A k \in scanned - t .. scanned - 1 : ~bits[k + 1]
                    /\ Used(scanned - t - 1)
    IN  IF hits # {}
        THEN IF sectors_required = 0 /\ checks
             THEN [st |-> "panic", sector_index |-> first, sectors_free |-> U8 - 1]
             ELSE [st |-> "found", sector_index |-> first, sectors_free |-> sectors_required]
        ELSE IF total_sectors > Len(bits)
        THEN [st |-> "panic", sector_index |-> Len(bits), sectors_free |-> 0]
        ELSE [st |-> "end", sector_index |-> total_sectors, sectors_free |-> tail]

\* region.rs:274-324: what find_place does with the outcome `sc` of its loop
\* over the bitmap `released`
find_place_put(r, metadata, sectors_required, released, source, source_len, sc, checks) ==
    LET total_sectors == source_len \div REGION_SECTOR_BYTES_LENGTH
        sectors_free == sc.sectors_free
        \* region.rs:276; in u32 a difference of -1 wraps and the + 1 wraps back
        difference == sc.sector_index - sectors_free
        put_sector_index == difference + 1
        put_panics == \/ checks /\ difference < 0
                      \/ sectors_free > 0 /\ put_sector_index + sectors_free > Len(released)
        \* region.rs:302-303
        extend_sectors == Wrap(sectors_required - sectors_free, U8)
        extend_len_bytes == Wrap(REGION_SECTOR_BYTES_LENGTH * extend_sectors, U16)
        extend_panics == \/ checks /\ Overflows(sectors_required - sectors_free, U8)
                         \/ checks /\ Overflows(REGION_SECTOR_BYTES_LENGTH * extend_sectors, U16)
        Ret(st, metadata_out, bits, source_out) ==
            [st |-> st, metadata |-> metadata_out,
             region |-> [r EXCEPT !.used_sectors = bits, !.source = source_out]]
    IN  IF sc.st = "panic"
        THEN Ret("panic", metadata, released, source)
        ELSE IF sc.st = "found"
        THEN IF put_panics
             THEN Ret("panic", metadata, released, source)
             ELSE Ret("Ok", ChunkMetadata_new(put_sector_index, sectors_required, 0),
                      SetRange(released, put_sector_index, sectors_free, TRUE), source)
        ELSE IF extend_panics
        THEN Ret("panic", metadata, released, source)
        ELSE Ret("Ok",
                 ChunkMetadata_new(total_sectors - sectors_free, sectors_required, 0),
                 Evaluated(released \o [i \in 1 .. extend_sectors |-> TRUE]),
                 extend_len(source, source_len + extend_len_bytes))

\* region.rs:258-272: the loop over the sectors of the source
find_place_scan(r, metadata, sectors_required, released, l, checks) ==
    find_place_put(r, metadata, sectors_required, released, l.source, l.len,
                   scan_sectors(released, l.len \div REGION_SECTOR_BYTES_LENGTH,
                                sectors_required, checks),
                   checks)

\* region.rs:232-256, then the scan
find_place(r, region_chunk_x, region_chunk_z, chunk_length, checks) ==
    LET quotient == Wrap(chunk_length \div REGION_SECTOR_BYTES_LENGTH, U8)
        sectors_required == Wrap(quotient + 1, U8)
        metadata == get_metadata(r, region_chunk_x, region_chunk_z)
        \* region.rs:252-256
        release_panics == metadata.sectors > 0
            /\ metadata.start_sector_index + metadata.sectors > Len(r.used_sectors)
    IN  IF checks /\ Overflows(quotient + 1, U8)
        THEN [st |-> "panic", metadata |-> metadata, region |-> r]
        ELSE IF metadata.sectors = sectors_required
        THEN [st |-> "Ok", metadata |-> metadata, region |-> r]
        ELSE IF release_panics
        THEN [st |-> "panic", metadata |-> metadata, region |-> r]
        ELSE find_place_scan(r, metadata, sectors_required,
                             SetRange(r.used_sectors, metadata.start_sector_index,
                                      metadata.sectors, FALSE),
                             len(r.source), checks)

\* update_metadata that moves a whole sector forward from behind the location
\* word (line 343 without the `- 4`)
update_metadata_seeks_whole_sector(r, region_chunk_x, region_chunk_z, metadata) ==
    LET index == metadata_index(region_chunk_x, region_chunk_z)
        start_seek_offset == index * 4
        offset == metadata.start_sector_index * U8 + metadata.sectors
        s1 == seek_start(r.source, start_seek_offset)
        s2 == write_u32(s1, offset)
        s3 == seek_current(s2, REGION_SECTOR_BYTES_LENGTH)
        s4 == write_u32(s3, metadata.last_modified_timestamp)
    IN  [r EXCEPT !.chunks_metadata[index] = metadata, !.source = s4]

\* region.rs:328-351
update_metadata(r, region_chunk_x, region_chunk_z, metadata) ==
    LET index == metadata_index(region_chunk_x, region_chunk_z)
        start_seek_offset == index * 4
        offset == metadata.start_sector_index * U8 + metadata.sectors
        s1 == seek_start(r.source, start_seek_offset)
        s2 == write_u32(s1, offset)
        s3 == seek_current(s2, REGION_SECTOR_BYTES_LENGTH - 4)
        s4 == write_u32(s3, metadata.last_modified_timestamp)
    IN  [r EXCEPT !.chunks_metadata[index] = metadata, !.source = s4]

\* region.rs:210-226: the slab and the header entry, once find_place has
\* returned fp; `now` is what SystemTime::now() returns at line 223
write_chunk_put(fp, region_chunk_x, region_chunk_z, chunk_compound_tag, length, now) ==
    LET metadata == fp.metadata
        buffer_len == 1 + chunk_compound_tag.zlen
        seek_offset == metadata.start_sector_index * REGION_SECTOR_BYTES_LENGTH
        s2 == seek_start(fp.region.source, seek_offset)
        s3 == write_u32(s2, buffer_len)
        s4 == write_buffer(s3, chunk_compound_tag)
        padding_len == REGION_SECTOR_BYTES_LENGTH
                         - (Wrap(length, U16) % REGION_SECTOR_BYTES_LENGTH)
        s5 == IF padding_len > 0 THEN write_zeros(s4, padding_len) ELSE s4
        stamped == [metadata EXCEPT !.last_modified_timestamp = now]
    IN  IF fp.st = "panic"
        THEN [res |-> "panic", length |-> length, region |-> fp.region]
        ELSE [res |-> "Ok", length |-> length,
              region |-> update_metadata([fp.region EXCEPT !.source = s5],
                                         region_chunk_x, region_chunk_z, stamped)]

\* write_chunk without the extension to the header length (lines 193-197 left out)
write_chunk_no_header_extend(r, region_chunk_x, region_chunk_z, chunk_compound_tag, now, checks) ==
    LET buffer_len == 1 + chunk_compound_tag.zlen
        length == buffer_len + 4
    IN  IF length > CHUNK_MAXIMUM_BYTES_LENGTH
        THEN [res |-> "LengthExceedsMaximum", length |-> length, region |-> r]
        ELSE write_chunk_put(find_place(r, region_chunk_x, region_chunk_z, length, checks),
                             region_chunk_x, region_chunk_z, chunk_compound_tag,
                             length, now)

\* write_chunk with the limit of line 205 one sector too high
write_chunk_limit_too_high(r, region_chunk_x, region_chunk_z, chunk_compound_tag, now, checks) ==
    LET l == len(r.source)
        s1 == IF REGION_HEADER_BYTES_LENGTH > l.len
              THEN extend_len(l.source, REGION_HEADER_BYTES_LENGTH)
              ELSE l.source
        buffer_len == 1 + chunk_compound_tag.zlen
        length == buffer_len + 4
    IN  IF length > CHUNK_MAXIMUM_BYTES_LENGTH + REGION_SECTOR_BYTES_LENGTH
        THEN [res |-> "LengthExceedsMaximum", length |-> length,
              region |-> [r EXCEPT !.source = s1]]
        ELSE write_chunk_put(find_place([r EXCEPT !.source = s1], region_chunk_x,
                                        region_chunk_z, length, checks),
                             region_chunk_x, region_chunk_z, chunk_compound_tag,
                             length, now)

\* region.rs:185-209, then the above
write_chunk(r, region_chunk_x, region_chunk_z, chunk_compound_tag, now, checks) ==
    LET l == len(r.source)
        s1 == IF REGION_HEADER_BYTES_LENGTH > l.len
              THEN extend_len(l.source, REGION_HEADER_BYTES_LENGTH)
              ELSE l.source
        buffer_len == 1 + chunk_compound_tag.zlen
        length == buffer_len + 4
    IN  IF length > CHUNK_MAXIMUM_BYTES_LENGTH
        THEN [res |-> "LengthExceedsMaximum", length |-> length,
              region |-> [r EXCEPT !.source = s1]]
        ELSE write_chunk_put(find_place([r EXCEPT !.source = s1], region_chunk_x,
                                        region_chunk_z, length, checks),
                             region_chunk_x, region_chunk_z, chunk_compound_tag,
                             length, now)

----------------------------------------------------------------------------
(* write_chunk, one fallible source operation after the other               *)

\* region.rs:191-209: the header extension, the scratch buffer, the size
\* check and find_place
write_chunk_place(r, region_chunk_x, region_chunk_z, chunk_compound_tag, checks) ==
    LET l == len(r.source)
        s1 == IF REGION_HEADER_BYTES_LENGTH > l.len
              THEN extend_len(l.source, REGION_HEADER_BYTES_LENGTH)
              ELSE l.source
        length == 1 + chunk_compound_tag.zlen + 4
        fp == find_place([r EXCEPT !.source = s1], region_chunk_x, region_chunk_z,
                         length, checks)
    IN  IF length > CHUNK_MAXIMUM_BYTES_LENGTH
        THEN [res |-> "LengthExceedsMaximum", length |-> length,
              metadata |-> ChunkMetadata_default, region |-> [r EXCEPT !.source = s1]]
        ELSE [res |-> fp.st, length |-> length, metadata |-> fp.metadata,
              region |-> fp.region]

\* write_chunk_length with the slab length L in place of buffer.len()
write_chunk_length_whole_slab(source, metadata, chunk_compound_tag) ==
    write_u32(seek_start(source, metadata.start_sector_index * REGION_SECTOR_BYTES_LENGTH),
              1 + chunk_compound_tag.zlen + 4)

\* region.rs:210-213: the seek to the slab and the length prefix
write_chunk_length(source, metadata, chunk_compound_tag) ==
    write_u32(seek_start(source, metadata.start_sector_index * REGION_SECTOR_BYTES_LENGTH),
              1 + chunk_compound_tag.zlen)

\* region.rs:214: the scratch buffer
write_chunk_buffer(source, chunk_compound_tag) ==
    write_buffer(source, chunk_compound_tag)

\* region.rs:216-221: the padding
write_chunk_padding(source, length) ==
    LET padding_len == REGION_SECTOR_BYTES_LENGTH
                         - (Wrap(length, U16) % REGION_SECTOR_BYTES_LENGTH)
    IN  IF padding_len > 0 THEN write_zeros(source, padding_len) ELSE source

\* region.rs:333-341: the entry of the table in memory, then the location word
update_metadata_location(r, region_chunk_x, region_chunk_z, metadata) ==
    LET index == metadata_index(region_chunk_x, region_chunk_z)
        offset == metadata.start_sector_index * U8 + metadata.sectors
    IN  [r EXCEPT !.chunks_metadata[index] = metadata,
                  !.source = write_u32(seek_start(r.source, index * 4), offset)]

\* region.rs:343-348: the timestamp word
update_metadata_timestamp(source, metadata) ==
    write_u32(seek_current(source, REGION_SECTOR_BYTES_LENGTH - 4),
              metadata.last_modified_timestamp)

----------------------------------------------------------------------------
(* The handle and its callers *)

NoCall ==
    [op |-> "load", x |-> 0, z |-> 0, tag |-> NoTag, was |-> ChunkMetadata_default,
     res |-> [kind |-> "Ok"]]

Init ==
    /\ overflow_checks \in BOOLEAN
    /\ region = load(EmptySource).region
    /\ panicked = FALSE
    /\ last = NoCall
    /\ written = [i \in Slots |-> NoTag]
    /\ ops = 0

WriteChunk ==
    \E c \in Coords, tag \in Tags, now \in Timestamps(ops) :
        LET out == write_chunk(region, c[1], c[2], tag, now, overflow_checks)
        IN  /\ ~panicked
            /\ ops < MaxOps
            /\ region' = out.region
            /\ panicked' = (out.res = "panic")
            /\ last' = [op |-> "write", x |-> c[1], z |-> c[2], tag |-> tag,
                        was |-> get_metadata(region, c[1], c[2]),
                        res |-> IF out.res = "LengthExceedsMaximum"
                                THEN [kind |-> out.res, length |-> out.length]
                                ELSE [kind |-> out.res]]
            /\ written' = IF out.res = "Ok"
                          THEN [written EXCEPT ![metadata_index(c[1], c[2])] = tag]
                          ELSE written
            /\ ops' = ops + 1
            /\ UNCHANGED overflow_checks

ReadChunk ==
    \E c \in Coords :
        LET out == read_chunk(region, c[1], c[2], overflow_checks)
        IN  /\ ~panicked
            /\ ops < MaxOps
            /\ region' = out.region
            /\ panicked' = (out.result.kind = "panic")
            /\ last' = [op |-> "read", x |-> c[1], z |-> c[2], tag |-> NoTag,
                        was |-> get_metadata(region, c[1], c[2]),
                        res |-> out.result]
            /\ ops' = ops + 1
            /\ UNCHANGED <<overflow_checks, written>>

Next == WriteChunk \/ ReadChunk

Spec == Init /\ [][Next]_vars

\* A region file an earlier session left behind, as the engine itself writes
\* it (the calls of test_write_chunk_not_enough_gap): slot (0,0) in sector 3,
\* slot (15,15) in sectors 4-5, sector 2 free; reopened, its cursor is at 0.
StoredTags ==
    [i \in Slots |-> IF i = metadata_index(15, 15)
                     THEN Tag(3, REGION_SECTOR_BYTES_LENGTH - 5, 16909060)
                     ELSE IF i = metadata_index(0, 0) THEN Tag(1, 95, 16909060) ELSE NoTag]

StoredSource ==
    LET tag_1 == StoredTags[metadata_index(0, 0)]
        tag_2 == StoredTags[metadata_index(15, 15)]
        w1 == write_chunk(load(EmptySource).region, 15, 15, tag_1, Epoch - 3, TRUE)
        w2 == write_chunk(w1.region, 0, 0, tag_1, Epoch - 2, TRUE)
        w3 == write_chunk(w2.region, 15, 15, tag_2, Epoch - 1, TRUE)
    IN  seek_start(w3.region.source, 0)

\* the handle is loaded from the empty source or from the stored file
InitAny ==
    /\ overflow_checks \in BOOLEAN
    /\ \E stored \in BOOLEAN :
          /\ region = load(IF stored THEN StoredSource ELSE EmptySource).region
          /\ written = IF stored THEN StoredTags ELSE [i \in Slots |-> NoTag]
    /\ panicked = FALSE
    /\ last = NoCall
    /\ ops = 0

SpecAny == InitAny /\ [][Next]_vars

\* A region file a release build of the engine left behind after two chunks
\* of 255 sectors each, written to (0,0) and (15,15), shrank to one sector:
\* (0,0) in sector 2, (15,15) in sector 3, (2,0) in the last sector 512 and
\* sectors 4 .. 511 free.
SparseTags ==
    [i \in Slots |-> IF i = metadata_index(2, 0) THEN Tag(2, 195, 84281096)
                     ELSE Tag(1, 95, 16909060)]

SparseSource ==
    LET large == Tag(8, 254 * REGION_SECTOR_BYTES_LENGTH, 3)
        w1 == write_chunk(load(EmptySource).region, 0, 0, large, Epoch - 5, FALSE)
        w2 == write_chunk(w1.region, 15, 15, large, Epoch - 4, FALSE)
        w3 == write_chunk(w2.region, 2, 0, SparseTags[metadata_index(2, 0)], Epoch - 3, FALSE)
        w4 == write_chunk(w3.region, 0, 0, SparseTags[metadata_index(0, 0)], Epoch - 2, FALSE)
        w5 == write_chunk(w4.region, 15, 15, SparseTags[metadata_index(15, 15)], Epoch - 1, FALSE)
    IN  seek_start(w5.region.source, 0)

InitSparse ==
    /\ overflow_checks \in BOOLEAN
    /\ region = load(SparseSource).region
    /\ written = SparseTags
    /\ panicked = FALSE
    /\ last = NoCall
    /\ ops = 0

SpecSparse == InitSparse /\ [][Next]_vars

\* A region file that holds a slab the engine did not write (a file another
\* program wrote, or one cut short or zeroed by a crash): three sectors, slot
\* (0,0) present in sector 2 with one sector, whose first five bytes are the
\* length word `length` and the scheme byte `scheme`; the bytes behind them
\* are no zlib stream.
DamagedSlabs ==
    { <<0, 0>>,                                \* a sector of zero bytes
      <<100, 7>>, <<100, GZIP_COMPRESSION_TYPE>>, <<100, ZLIB_COMPRESSION_TYPE>>,
      <<REGION_SECTOR_BYTES_LENGTH, 7>>,       \* the payload ends behind the file
      <<REGION_SECTOR_BYTES_LENGTH + 1, 7>> }  \* more than the slot's sector

DamagedSource(length, scheme) ==
    LET file == extend_len(EmptySource, 3 * REGION_SECTOR_BYTES_LENGTH)
        location == write_u32(seek_start(file, 4 * metadata_index(0, 0)), 2 * U8 + 1)
        stamped == write_u32(seek_start(location, REGION_SECTOR_BYTES_LENGTH
                                                      + 4 * metadata_index(0, 0)), Epoch - 1)
        foreign == Tag(9, REGION_SECTOR_BYTES_LENGTH, scheme)
        body == [stamped EXCEPT !.runs = IF scheme = 0 THEN {} ELSE {Run(1, 2, 3, foreign)}]
        slab == write_u32(seek_start(body, 2 * REGION_SECTOR_BYTES_LENGTH), length)
    IN  seek_start(slab, 0)

InitDamaged ==
    /\ overflow_checks \in BOOLEAN
    /\ \E slab \in DamagedSlabs : region = load(DamagedSource(slab[1], slab[2])).region
    /\ written = [i \in Slots |-> NoTag]
    /\ panicked = FALSE
    /\ last = NoCall
    /\ ops = 0

SpecDamaged == InitDamaged /\ [][Next]_vars

\* The first n <= 8192 bytes of a source: what is left of a region file
\* that was cut short.
Truncate(source, n) ==
    [len |-> n, pos |-> 0, runs |-> {},
     ov |-> [k \in {k \in DOMAIN source.ov :
                       k[1] * REGION_SECTOR_BYTES_LENGTH + 4 * k[2] + 4 <= n}
                |-> source.ov[k]]]

\* lengths below the header's 8192 bytes, and 8192 itself
ShortLengths == {0, 1, REGION_SECTOR_BYTES_LENGTH, REGION_HEADER_BYTES_LENGTH - 1}
OpenLengths == ShortLengths \cup {REGION_HEADER_BYTES_LENGTH}

\* The sources Region::load is called with: the stored file and what is left
\* of it after n bytes, the cursor at the start or at the end.
OpenSources ==
    LET files == {StoredSource} \cup {Truncate(StoredSource, n) : n \in OpenLengths}
    IN  {seek_start(file, 0) : file \in files} \cup {seek_end(file) : file \in files}

\* a source no handle has been made of yet
Unopened(source) ==
    [source |-> source, chunks_metadata |-> [i \in Slots |-> ChunkMetadata_default],
     used_sectors |-> <<>>]

InitOpen ==
    /\ overflow_checks \in BOOLEAN
    /\ \E source \in OpenSources :
          /\ region = Unopened(source)
          /\ written = IF source.len = StoredSource.len THEN StoredTags
                       ELSE [i \in Slots |-> NoTag]
    /\ panicked = FALSE
    /\ last = [NoCall EXCEPT !.op = "none"]
    /\ ops = 0

\* Region::load(x, z, source); an Err leaves the caller without a handle
LoadSource ==
    LET out == load(region.source)
    IN  /\ last.op = "none"
        /\ region' = out.region
        /\ panicked' = (out.res = "panic")
        /\ last' = [NoCall EXCEPT !.res = [kind |-> out.res]]
        /\ UNCHANGED <<overflow_checks, written, ops>>

HasHandle == last.op # "none" /\ ~(last.op = "load" /\ last.res.kind # "Ok")

NextOpen ==
    \/ LoadSource
    \/ HasHandle /\ WriteChunk
    \/ HasHandle /\ ReadChunk

SpecOpen == InitOpen /\ [][NextOpen]_vars

\* The metadata values update_metadata is called with: the empty value, the
\* value of test_update_metadata, one with a zero timestamp, and the largest
\* whose location word, 2^31 - 1, TLC's integers still hold.
MetadataValues ==
    { ChunkMetadata_default,
      ChunkMetadata_new(500, 10, Epoch),
      ChunkMetadata_new(2, 1, 0),
      ChunkMetadata_new(8388607, U8 - 1, 2147483647) }

\* the 8192 zero bytes of test_update_metadata
ZeroHeader == extend_len(EmptySource, REGION_HEADER_BYTES_LENGTH)

InitMeta ==
    /\ overflow_checks \in BOOLEAN
    /\ \E stored \in BOOLEAN :
          /\ region = load(IF stored THEN StoredSource ELSE ZeroHeader).region
          /\ written = IF stored THEN StoredTags ELSE [i \in Slots |-> NoTag]
    /\ panicked = FALSE
    /\ last = NoCall
    /\ ops = 0

\* region.update_metadata(x, z, metadata), as test_update_metadata calls it
UpdateMetadata ==
    \E c \in Coords, metadata \in MetadataValues :
        /\ ~panicked
        /\ ops < MaxOps
        /\ region' = update_metadata(region, c[1], c[2], metadata)
        /\ last' = [op |-> "update", x |-> c[1], z |-> c[2], tag |-> NoTag,
                    was |-> get_metadata(region, c[1], c[2]),
                    res |-> [kind |-> "Ok"], metadata |-> metadata]
        /\ ops' = ops + 1
        /\ UNCHANGED <<overflow_checks, panicked, written>>

\* region.source.set_position(0), then Region::read_header(&mut
\* region.source, REGION_HEADER_BYTES_LENGTH) (region.rs:500-503)
ReadHeader ==
    LET h == read_header(seek_start(region.source, 0), REGION_HEADER_BYTES_LENGTH)
    IN  /\ ~panicked
        /\ ops < MaxOps
        /\ region' = [region EXCEPT !.source = h.source]
        /\ last' = [op |-> "read_header", x |-> 0, z |-> 0, tag |-> NoTag,
                    was |-> ChunkMetadata_default,
                    res |-> [kind |-> IF h.ok THEN "Ok" ELSE "IOError",
                             chunks_metadata |-> h.chunks_metadata]]
        /\ ops' = ops + 1
        /\ UNCHANGED <<overflow_checks, panicked, written>>

NextMeta == UpdateMetadata \/ ReadHeader

SpecMeta == InitMeta /\ [][NextMeta]_vars

\* The sources extend_len is called on: the empty source, a zeroed header,
\* the stored file and what is left of it after 1 and after 8191 bytes, the
\* cursor at the start, behind the first word or at the end.
ExtendSources ==
    LET files == {EmptySource, ZeroHeader, StoredSource}
                     \cup {Truncate(StoredSource, n) : n \in {1, REGION_HEADER_BYTES_LENGTH - 1}}
    IN  UNION {{seek_start(file, 0), seek_start(file, Min(4, file.len)), seek_end(file)} :
                  file \in files}

\* the lengths asked for: none, the header (region.rs:193-197), more sectors
ExtendLengths ==
    {0, 10, REGION_HEADER_BYTES_LENGTH, 3 * REGION_SECTOR_BYTES_LENGTH,
     7 * REGION_SECTOR_BYTES_LENGTH}

InitExtend ==
    /\ overflow_checks \in BOOLEAN
    /\ \E source \in ExtendSources : region = Unopened(source)
    /\ written = [i \in Slots |-> NoTag]
    /\ panicked = FALSE
    /\ last = [NoCall EXCEPT !.op = "none"]
    /\ ops = 0

\* source.extend_len(new_len)
ExtendLen ==
    \E new_len \in ExtendLengths :
        /\ ops < MaxOps
        /\ region' = [region EXCEPT !.source = extend_len(region.source, new_len)]
        /\ last' = [op |-> "extend_len", x |-> 0, z |-> 0, tag |-> NoTag,
                    was |-> ChunkMetadata_default, res |-> [kind |-> "Ok"],
                    new_len |-> new_len]
        /\ ops' = ops + 1
        /\ UNCHANGED <<overflow_checks, panicked, written>>

\* source.len()
SourceLen ==
    LET l == len(region.source)
    IN  /\ ops < MaxOps
        /\ region' = [region EXCEPT !.source = l.source]
        /\ last' = [op |-> "len", x |-> 0, z |-> 0, tag |-> NoTag,
                    was |-> ChunkMetadata_default, res |-> [kind |-> "Ok", len |-> l.len]]
        /\ ops' = ops + 1
        /\ UNCHANGED <<overflow_checks, panicked, written>>

NextExtend == ExtendLen \/ SourceLen

SpecExtend == InitExtend /\ [][NextExtend]_vars

\* A write_chunk call in progress is the record `last` with res.kind =
\* "running": stage names the last source operation that succeeded, metadata
\* is what find_place returned, header_was the slot's two header words when
\* the call began, table_was and bitmap_was the handle's table and bitmap
\* when it began.
Running == last.op = "write" /\ last.res.kind = "running"
LastSlotOf(call) == metadata_index(call.x, call.z)
AtStage(stage) == Running /\ last.stage = stage

\* the slot's location and timestamp word in the source
HeaderWords(source, i) == <<WordAt(source, 0, i), WordAt(source, 1, i)>>

\* the tags written step by step: one sector, two sectors with L mod 4096 =
\* 0, floor(L / 4096) = 255, and more than 1 MiB
StepTags == {tag \in Tags : tag.id \in {1, 3, 5, 7}}

\* region.rs:185-209
BeginWrite ==
    \E c \in Coords, tag \in StepTags :
        LET out == write_chunk_place(region, c[1], c[2], tag, overflow_checks)
        IN  /\ ~panicked /\ ~Running
            /\ ops < MaxOps
            /\ region' = out.region
            /\ panicked' = (out.res = "panic")
            /\ last' = [op |-> "write", x |-> c[1], z |-> c[2], tag |-> tag,
                        was |-> get_metadata(region, c[1], c[2]),
                        res |-> IF out.res = "Ok" THEN [kind |-> "running"]
                                ELSE IF out.res = "LengthExceedsMaximum"
                                THEN [kind |-> out.res, length |-> out.length]
                                ELSE [kind |-> out.res],
                        stage |-> "placed", metadata |-> out.metadata,
                        length |-> out.length,
                        header_was |->
                            HeaderWords(out.region.source, metadata_index(c[1], c[2])),
                        table_was |-> region.chunks_metadata,
                        bitmap_was |-> region.used_sectors]
            /\ ops' = ops + 1
            /\ UNCHANGED <<overflow_checks, written>>

\* the call returns the io::Error of the source operation that follows
\* `stage`, which has written nothing
FailWrite ==
    /\ Running
    /\ last' = [last EXCEPT !.res = [kind |-> "IOError"]]
    /\ UNCHANGED <<region, overflow_checks, panicked, written, ops>>

\* region.rs:212-213
WriteLength ==
    /\ AtStage("placed")
    /\ region' = [region EXCEPT
                     !.source = write_chunk_length(region.source, last.metadata, last.tag)]
    /\ last' = [last EXCEPT !.stage = "length"]
    /\ UNCHANGED <<overflow_checks, panicked, written, ops>>

\* region.rs:214
WriteBuffer ==
    /\ AtStage("length")
    /\ region' = [region EXCEPT !.source = write_chunk_buffer(region.source, last.tag)]
    /\ last' = [last EXCEPT !.stage = "buffer"]
    /\ UNCHANGED <<overflow_checks, panicked, written, ops>>

\* region.rs:216-221
WritePadding ==
    /\ AtStage("buffer")
    /\ region' = [region EXCEPT !.source = write_chunk_padding(region.source, last.length)]
    /\ last' = [last EXCEPT !.stage = "padding"]
    /\ UNCHANGED <<overflow_checks, panicked, written, ops>>

\* region.rs:223, 333-341; the clock is read before the header is touched
WriteLocation ==
    \E now \in Timestamps(ops - 1) :
        LET stamped == [last.metadata EXCEPT !.last_modified_timestamp = now]
        IN  /\ AtStage("padding")
            /\ region' = update_metadata_location(region, last.x, last.z, stamped)
            /\ last' = [last EXCEPT !.stage = "location", !.metadata = stamped]
            /\ UNCHANGED <<overflow_checks, panicked, written, ops>>

\* region.rs:343-350, 226
WriteTimestamp ==
    /\ AtStage("location")
    /\ region' = [region EXCEPT
                     !.source = update_metadata_timestamp(region.source, last.metadata)]
    /\ last' = [last EXCEPT !.stage = "timestamp", !.res = [kind |-> "Ok"]]
    /\ written' = [written EXCEPT ![LastSlotOf(last)] = last.tag]
    /\ UNCHANGED <<overflow_checks, panicked, ops>>

\* The process ends while the call is in progress and the file is opened
\* again by Region::load.
Interrupt ==
    LET out == load(seek_start(region.source, 0))
    IN  /\ Running
        /\ ops < MaxOps
        /\ region' = out.region
        /\ panicked' = (out.res = "panic")
        /\ last' = [last EXCEPT !.op = "load", !.res = [kind |-> out.res]]
        /\ ops' = ops + 1
        /\ UNCHANGED <<overflow_checks, written>>

\* read_chunk between two calls of write_chunk
ReadIdle == ~Running /\ ReadChunk

NextSteps ==
    \/ BeginWrite
    \/ WriteLength
    \/ WriteBuffer
    \/ WritePadding
    \/ WriteLocation
    \/ WriteTimestamp
    \/ FailWrite
    \/ Interrupt
    \/ ReadIdle

SpecSteps == InitAny /\ [][NextSteps]_vars

----------------------------------------------------------------------------
(* position.rs: global chunk coordinates (i32, two's complement) to the     *)
(* region's position and the chunk's position inside the region             *)

\* the low 31 bits of an i32, as a number; the remaining bit is the sign
I32Low31(value) == IF value >= 0 THEN value ELSE (value + 2147483647) + 1

\* `value >> bits` on an i32: the bits move down and the sign bit fills in
ShiftRight(value, bits) ==
    IF value >= 0 THEN value \div 2 ^ bits
    ELSE I32Low31(value) \div 2 ^ bits - 2 ^ (31 - bits)

\* the bitwise and of two numbers without a sign
RECURSIVE BitAnd(_, _)
BitAnd(a, b) ==
    IF a = 0 \/ b = 0 THEN 0
    ELSE (a % 2) * (b % 2) + 2 * BitAnd(a \div 2, b \div 2)

\* `value & mask` on an i32 for a mask whose sign bit is clear
MaskI32(value, mask) == BitAnd(I32Low31(value), mask)

\* RegionPosition::from_chunk_position with `/ 32`, which rounds towards
\* zero, in place of `>> 5`
RegionPosition_divides(chunk_x, chunk_z) ==
    LET Quotient(value) == value \div 32 + (IF value < 0 /\ value % 32 # 0 THEN 1 ELSE 0)
    IN  [x |-> Quotient(chunk_x), z |-> Quotient(chunk_z)]

\* position.rs:17-22
RegionPosition_from_chunk_position(chunk_x, chunk_z) ==
    [x |-> ShiftRight(chunk_x, 5), z |-> ShiftRight(chunk_z, 5)]

\* position.rs:69-74
RegionChunkPosition_from_chunk_position(chunk_x, chunk_z) ==
    [x |-> MaskI32(chunk_x, 31) % U8, z |-> MaskI32(chunk_z, 31) % U8]

\* global chunk coordinates: both ends of the i32 range, the region borders
\* around zero, and the coordinate of test_load_chunk_no_region
ChunkCoordinates ==
    {-2147483647 - 1, -2147483647, -1025, -1024, -64, -33, -32, -31, -1,
     0, 1, 31, 32, 33, 100, 1023, 1024, 2147483647}

InitPosition ==
    /\ overflow_checks \in BOOLEAN
    /\ region = load(EmptySource).region
    /\ written = [i \in Slots |-> NoTag]
    /\ panicked = FALSE
    /\ last = [NoCall EXCEPT !.op = "none"]
    /\ ops = 0

\* the provider's split of a chunk position (lib.rs:126-130, 155-159)
FromChunkPosition ==
    \E chunk_x \in ChunkCoordinates, chunk_z \in ChunkCoordinates :
        /\ ops < MaxOps
        /\ last' = [op |-> "from_chunk_position", x |-> 0, z |-> 0, tag |-> NoTag,
                    was |-> ChunkMetadata_default, res |-> [kind |-> "Ok"],
                    chunk_x |-> chunk_x, chunk_z |-> chunk_z,
                    region_position |->
                        RegionPosition_from_chunk_position(chunk_x, chunk_z),
                    region_chunk_position |->
                        RegionChunkPosition_from_chunk_position(chunk_x, chunk_z)]
        /\ ops' = ops + 1
        /\ UNCHANGED <<region, overflow_checks, panicked, written>>

NextPosition == FromChunkPosition

SpecPosition == InitPosition /\ [][NextPosition]_vars

----------------------------------------------------------------------------
(* Calls with coordinates of the whole u8 range.  The dev profile, which   *)
(* overflow_checks = TRUE stands for, also compiles the debug assertions    *)
(* in.  The table of the model holds the entries of Slots only, so the      *)
(* coordinates beyond 31 are those whose index is a slot of the model,      *)
(* <<47, 14>> with 47 + 14 * 32 = 495, and those whose index lies beyond    *)
(* the table.                                                               *)

WideCoords == {<<15, 15>>, <<47, 14>>, <<0, 32>>, <<255, 255>>}

\* region.rs:44-46, 49-60: the debug assertions of metadata_index, and the
\* index into the array of REGION_CHUNKS entries
metadata_index_panics(region_chunk_x, region_chunk_z, checks) ==
    \/ checks /\ ~(32 > region_chunk_x /\ 32 > region_chunk_z)
    \/ metadata_index(region_chunk_x, region_chunk_z) >= REGION_CHUNKS

\* region.rs:111-116: get_metadata first, then the rest of read_chunk
read_chunk_at(r, region_chunk_x, region_chunk_z, checks) ==
    IF metadata_index_panics(region_chunk_x, region_chunk_z, checks)
    THEN [result |-> [kind |-> "panic"], region |-> r]
    ELSE read_chunk(r, region_chunk_x, region_chunk_z, checks)

\* region.rs:185-209: the header extension and the size check come before
\* find_place, whose get_metadata is the first to index the table
write_chunk_at(r, region_chunk_x, region_chunk_z, chunk_compound_tag, now, checks) ==
    LET l == len(r.source)
        s1 == IF REGION_HEADER_BYTES_LENGTH > l.len
              THEN extend_len(l.source, REGION_HEADER_BYTES_LENGTH)
              ELSE l.source
        length == 1 + chunk_compound_tag.zlen + 4
    IN  IF length > CHUNK_MAXIMUM_BYTES_LENGTH
        THEN [res |-> "LengthExceedsMaximum", length |-> length,
              region |-> [r EXCEPT !.source = s1]]
        ELSE IF metadata_index_panics(region_chunk_x, region_chunk_z, checks)
        THEN [res |-> "panic", region |-> [r EXCEPT !.source = s1]]
        ELSE write_chunk(r, region_chunk_x, region_chunk_z, chunk_compound_tag, now,
                         checks)

WriteChunkAt ==
    \E c \in WideCoords, tag \in StepTags, now \in Timestamps(ops) :
        LET out == write_chunk_at(region, c[1], c[2], tag, now, overflow_checks)
        IN  /\ ~panicked
            /\ ops < MaxOps
            /\ region' = out.region
            /\ panicked' = (out.res = "panic")
            /\ last' = [op |-> "write", x |-> c[1], z |-> c[2], tag |-> tag,
                        was |-> ChunkMetadata_default,
                        res |-> IF out.res = "LengthExceedsMaximum"
                                THEN [kind |-> out.res, length |-> out.length]
                                ELSE [kind |-> out.res]]
            /\ written' = IF out.res = "Ok"
                          THEN [written EXCEPT ![metadata_index(c[1], c[2])] = tag]
                          ELSE written
            /\ ops' = ops + 1
            /\ UNCHANGED overflow_checks

ReadChunkAt ==
    \E c \in WideCoords :
        LET out == read_chunk_at(region, c[1], c[2], overflow_checks)
        IN  /\ ~panicked
            /\ ops < MaxOps
            /\ region' = out.region
            /\ panicked' = (out.result.kind = "panic")
            /\ last' = [op |-> "read", x |-> c[1], z |-> c[2], tag |-> NoTag,
                        was |-> ChunkMetadata_default,
                        res |-> out.result]
            /\ ops' = ops + 1
            /\ UNCHANGED <<overflow_checks, written>>

NextWide == WriteChunkAt \/ ReadChunkAt

SpecWide == InitAny /\ [][NextWide]_vars

----------------------------------------------------------------------------
(* ZipChunkProvider: the region files of a zip archive, read-only.  The     *)
(* variable region holds the uncompressed region file the provider caches;  *)
(* a handle is made of a fresh Cursor over it for every load_chunk.         *)

\* the region files an archive may hold
ArchivedSources == {EmptySource, StoredSource, SparseSource}

InitZip ==
    /\ overflow_checks \in BOOLEAN
    /\ \E source \in ArchivedSources : region = Unopened(source)
    /\ written = [i \in Slots |-> NoTag]
    /\ panicked = FALSE
    /\ last = [NoCall EXCEPT !.op = "none"]
    /\ ops = 0

\* zip_chunk_provider.rs:94-140
ZipLoadChunk ==
    \E c \in Coords :
        LET opened == load(seek_start(region.source, 0))
            out == read_chunk(opened.region, c[1], c[2], overflow_checks)
            result == IF opened.res = "Ok" THEN out.result ELSE [kind |-> opened.res]
        IN  /\ ~panicked
            /\ ops < MaxOps
            /\ panicked' = (result.kind = "panic")
            /\ last' = [op |-> "read", x |-> c[1], z |-> c[2], tag |-> NoTag,
                        was |-> ChunkMetadata_default, res |-> result]
            /\ ops' = ops + 1
            /\ UNCHANGED <<region, overflow_checks, written>>

\* zip_chunk_provider.rs:142-149
ZipSaveChunk ==
    \E c \in Coords, tag \in Tags :
        /\ ~panicked
        /\ ops < MaxOps
        /\ panicked' = TRUE
        /\ last' = [op |-> "write", x |-> c[1], z |-> c[2], tag |-> tag,
                    was |-> ChunkMetadata_default, res |-> [kind |-> "panic"]]
        /\ ops' = ops + 1
        /\ UNCHANGED <<region, overflow_checks, written>>

NextZip == ZipLoadChunk \/ ZipSaveChunk

SpecZip == InitZip /\ [][NextZip]_vars

----------------------------------------------------------------------------
(* Vocabulary of the properties *)

Present(i) == ~is_empty(region.chunks_metadata[i])
First(i) == region.chunks_metadata[i].start_sector_index
Count(i) == region.chunks_metadata[i].sectors

\* the slot the last call addressed
LastCoord == <<last.x, last.z>>
LastSlot == metadata_index(last.x, last.z)

\* slab length of a tag: 4 length bytes, the scheme byte, the zlib stream
SlabLength(tag) == 4 + 1 + tag.zlen

\* sectors a slab of length L needs
RequiredSectors(L) == L \div REGION_SECTOR_BYTES_LENGTH + 1

\* what read_chunk returns for coordinates c on the handle r
Reads(r, c) == read_chunk(r, c[1], c[2], overflow_checks).result

Found(tag) == [kind |-> "Ok", tag |-> tag]
NotFound(c) == [kind |-> "ChunkNotFound", region_chunk_x |-> c[1], region_chunk_z |-> c[2]]

\* every write_chunk so far returned Ok
OnlySuccessfulWrites == ~panicked /\ (last.op = "write" => last.res.kind = "Ok")

----------------------------------------------------------------------------
(* C1: after any sequence of successful write_chunk calls on a handle       *)
(* loaded from an empty source, no two present slots have overlapping       *)
(* sector ranges [start_sector, start_sector + sector_count).               *)
C1_NoOverlap ==
    \A i, j \in Slots :
        (i # j /\ Present(i) /\ Present(j))
            => (First(i) + Count(i) <= First(j) \/ First(j) + Count(j) <= First(i))

(* C2: after any sequence of successful writes, a write_chunk to slot       *)
(* (x1,z1) does not change what read_chunk returns for any other slot: a    *)
(* slot written before still reads back the tag last written to it, a slot  *)
(* never written still reports ChunkNotFound.                               *)
C2_OtherSlotsUnaffected ==
    [][(OnlySuccessfulWrites /\ last'.op = "write" /\ last'.res.kind = "Ok")
        => \A c \in Coords \ {LastCoord'} :
              /\ Reads(region', c) = Reads(region, c)
              /\ Reads(region', c) = IF written[metadata_index(c[1], c[2])] = NoTag
                                     THEN NotFound(c)
                                     ELSE Found(written[metadata_index(c[1], c[2])])]_vars

(* C3: for every slot and every tag whose slab length L is at most 1 MiB,   *)
(* write_chunk succeeds from any reachable state and an immediately         *)
(* following read_chunk of the slot returns the tag.                        *)
C3_WriteThenRead ==
    (last.op = "write" /\ SlabLength(last.tag) <= CHUNK_MAXIMUM_BYTES_LENGTH)
        => /\ last.res.kind = "Ok"
           /\ Reads(region, LastCoord) = Found(last.tag)

(* C4: write_chunk(x,z,P1); write_chunk(x,z,P2); read_chunk(x,z) returns P2 *)
(* and nothing of P1, whatever the sector requirements of P1 and P2.        *)
C4_LastWriteWins ==
    [][(last.op = "write" /\ last.res.kind = "Ok"
          /\ last'.op = "write" /\ last'.res.kind = "Ok" /\ LastCoord' = LastCoord)
        => Reads(region', LastCoord') = Found(last'.tag)]_vars

(* C5: after any sequence of operations, sectors 0 and 1 are marked         *)
(* occupied in the bitmap and no present slot's range contains sector 0 or  *)
(* 1.                                                                       *)
C5_HeaderSectorsReserved ==
    /\ Len(region.used_sectors) >= 2
    /\ region.used_sectors[1] /\ region.used_sectors[2]
    /\ \A i \in Slots : Present(i) => First(i) >= 2

\* a write has just placed a slot at sector 2, right behind the header,
\* while another slot is present
C5_Witness ==
    /\ last.op = "write" /\ last.res.kind = "Ok"
    /\ Present(LastSlot) /\ First(LastSlot) = 2
    /\ \E j \in Slots \ {LastSlot} : Present(j)
    /\ region.used_sectors[1] /\ region.used_sectors[2]

(* C6: after any sequence of operations, the file length, when greater than *)
(* 0, is a multiple of 4096 and the bitmap length equals file length /      *)
(* 4096.                                                                    *)
C6_LengthAndBitmap ==
    (~panicked /\ region.source.len > 0)
        => /\ region.source.len % REGION_SECTOR_BYTES_LENGTH = 0
           /\ Len(region.used_sectors) = region.source.len \div REGION_SECTOR_BYTES_LENGTH

(* C7: after any sequence of operations, for every slot of the in-memory    *)
(* metadata table, sector_count = 0 if and only if start_sector = 0.        *)
C7_AbsentIffZeroStart ==
    ~panicked => \A i \in Slots : (Count(i) = 0) <=> (First(i) = 0)

(* C8: after any sequence of successful writes, for every present slot the  *)
(* 4-byte big-endian length stored at byte start_sector * 4096 is at most   *)
(* sector_count * 4096 and at most 1 MiB.                                   *)
C8_StoredLengthBounded ==
    OnlySuccessfulWrites
        => \A i \in Slots :
              Present(i)
                => /\ WordAt(region.source, First(i), 0)
                        <= Count(i) * REGION_SECTOR_BYTES_LENGTH
                   /\ WordAt(region.source, First(i), 0) <= CHUNK_MAXIMUM_BYTES_LENGTH

(* C9: after each completed write_chunk, for every slot i the location word *)
(* at file bytes [4i, 4i+4) and the timestamp word at [4096+4i, 4096+4i+4)  *)
(* decode to the in-memory metadata of slot i: loading the same source      *)
(* again yields an identical metadata table.                                *)
C9_HeaderMirrorsMemory ==
    (last.op = "write" /\ ~panicked)
        => /\ \A i \in Slots :
                /\ WordAt(region.source, 0, i) = First(i) * U8 + Count(i)
                /\ WordAt(region.source, 1, i)
                     = region.chunks_metadata[i].last_modified_timestamp
           /\ load(seek_start(region.source, 0)).region.chunks_metadata
                = region.chunks_metadata

\* no run of n free sectors among the first `total` sectors
NoFreeRun(bits, total, n) ==
    \A s \in 0 .. total - n :
        \E k \in s .. s + n - 1 : k + 1 > Len(bits) \/ bits[k + 1]

\* length of the free run touching the end of the first `total` sectors
TailFree(bits, total) ==
    CHOOSE t \in 0 .. total :
        /\ \A k \in total - t .. total - 1 : k + 1 <= Len(bits) /\ ~bits[k + 1]
        /\ t < total => ~(total - t - 1 + 1 <= Len(bits) /\ ~bits[total - t])

(* C10: when write_chunk finds no run of required_sectors consecutive free  *)
(* sectors in the existing file, with tail_free the length of the free run  *)
(* touching end-of-file and total_sectors the sector count before the       *)
(* write, the file grows by exactly (required_sectors - tail_free) * 4096   *)
(* bytes, the bitmap grows by the same number of bits, and the chunk is     *)
(* recorded at start_sector = total_sectors - tail_free, its range ending   *)
(* at the new end of file.                                                  *)
C10_ExtendsByMissingSectors ==
    [][LET i == LastSlot'
           required_sectors == RequiredSectors(SlabLength(last'.tag))
           before == Max(region.source.len, REGION_HEADER_BYTES_LENGTH)
           total_sectors == before \div REGION_SECTOR_BYTES_LENGTH
           released == SetRange(region.used_sectors, First(i), Count(i), FALSE)
           tail_free == TailFree(released, total_sectors)
       IN  (/\ ~panicked /\ last'.op = "write"
            /\ SlabLength(last'.tag) <= CHUNK_MAXIMUM_BYTES_LENGTH
            /\ Count(i) # required_sectors
            /\ NoFreeRun(released, total_sectors, required_sectors))
           => /\ last'.res.kind = "Ok"
              /\ region'.source.len
                   = before + (required_sectors - tail_free) * REGION_SECTOR_BYTES_LENGTH
              /\ Len(region'.used_sectors)
                   = Len(region.used_sectors) + (required_sectors - tail_free)
              /\ region'.chunks_metadata[i].start_sector_index = total_sectors - tail_free
              /\ region'.chunks_metadata[i].sectors = required_sectors
              /\ (total_sectors - tail_free + required_sectors) * REGION_SECTOR_BYTES_LENGTH
                   = region'.source.len]_vars

\* sectors [s, s + n) are all free in bits
FreeRunAt(bits, s, n) ==
    \A k \in s .. s + n - 1 : k + 1 <= Len(bits) /\ ~bits[k + 1]

\* s is the lowest start of a run of n free sectors among the first `total`
IsLowestFreeRun(bits, total, n, s) ==
    /\ s + n <= total
    /\ FreeRunAt(bits, s, n)
    /\ \A t \in 0 .. s - 1 : ~FreeRunAt(bits, t, n)

(* C11: when, after the slot's old range has been released, the bitmap      *)
(* contains a run of required_sectors consecutive free sectors inside the   *)
(* existing file, write_chunk places the chunk at the lowest-indexed such   *)
(* run (first-fit), marks exactly those sectors occupied and leaves the     *)
(* file length and the bitmap length unchanged.                             *)
C11_FirstFit ==
    [][LET i == LastSlot'
           required_sectors == RequiredSectors(SlabLength(last'.tag))
           total_sectors == Max(region.source.len, REGION_HEADER_BYTES_LENGTH)
                              \div REGION_SECTOR_BYTES_LENGTH
       IN  \A released \in {SetRange(region.used_sectors, First(i), Count(i), FALSE)} :
             (/\ ~panicked /\ last'.op = "write"
              /\ SlabLength(last'.tag) <= CHUNK_MAXIMUM_BYTES_LENGTH
              /\ Count(i) # required_sectors
              /\ ~NoFreeRun(released, total_sectors, required_sectors))
             => /\ last'.res.kind = "Ok"
                /\ \A start \in {region'.chunks_metadata[i].start_sector_index} :
                     /\ IsLowestFreeRun(released, total_sectors, required_sectors, start)
                     /\ region'.used_sectors
                          = SetRange(released, start, required_sectors, TRUE)
                /\ region'.chunks_metadata[i].sectors = required_sectors
                /\ region'.source.len = region.source.len
                /\ Len(region'.used_sectors) = Len(region.used_sectors)]_vars

\* words of the source the engine can come to interpret, outside the sectors
\* [from, to) and the header words of slot i
OtherWords(source, from, to, i) ==
    [k \in {k \in (0 .. SectorsOf(source.len) - 1) \X Words :
                /\ ~(from <= k[1] /\ k[1] < to)
                /\ ~(k[1] \in {0, 1} /\ k[2] = i)}
        |-> WordAt(source, k[1], k[2])]

(* C12: when a present slot is rewritten with a payload whose required      *)
(* sector count equals the slot's current sector_count, write_chunk keeps   *)
(* the same start_sector and sector_count, leaves the bitmap and the file   *)
(* length unchanged, and changes only the slab contents and the slot's      *)
(* timestamp.                                                               *)
C12_SameSizeInPlace ==
    [][LET i == LastSlot'
       IN  (/\ ~panicked /\ last'.op = "write"
            /\ SlabLength(last'.tag) <= CHUNK_MAXIMUM_BYTES_LENGTH
            /\ Present(i)
            /\ Count(i) = RequiredSectors(SlabLength(last'.tag)))
           => /\ last'.res.kind = "Ok"
              /\ region'.chunks_metadata[i].start_sector_index = First(i)
              /\ region'.chunks_metadata[i].sectors = Count(i)
              /\ \A j \in Slots \ {i} :
                    region'.chunks_metadata[j] = region.chunks_metadata[j]
              /\ region'.used_sectors = region.used_sectors
              /\ region'.source.len = region.source.len
              /\ WordAt(region'.source, 0, i) = WordAt(region.source, 0, i)
              /\ OtherWords(region'.source, First(i), First(i) + Count(i), i)
                   = OtherWords(region.source, First(i), First(i) + Count(i), i)]_vars

\* the last call was a write_chunk that returned Ok and changed the sector
\* count of a slot that was present
ResizedSlot ==
    /\ ~panicked /\ last.op = "write" /\ last.res.kind = "Ok"
    /\ ~is_empty(last.was)
    /\ Count(LastSlot) # last.was.sectors

\* sectors of the slot's old range that are not part of its new range
FreedSectors ==
    {sector \in last.was.start_sector_index
                  .. last.was.start_sector_index + last.was.sectors - 1 :
        ~(First(LastSlot) <= sector /\ sector < First(LastSlot) + Count(LastSlot))}

(* C13: after a write_chunk that changes a present slot's sector count,     *)
(* every sector of the slot's old range that is not part of its new range   *)
(* is marked free in the bitmap.                                            *)
C13_OldRangeFreed ==
    ResizedSlot
        => \A sector \in FreedSectors :
              sector + 1 <= Len(region.used_sectors) /\ ~region.used_sectors[sector + 1]

(* C13, continued: a later write to any slot whose required sector count    *)
(* fits that freed run, with no lower-indexed fitting run, is placed inside *)
(* it without growing the file.                                             *)
C13_FreedRangeReused ==
    [][LET j == LastSlot'
           required_sectors == RequiredSectors(SlabLength(last'.tag))
           total_sectors == region.source.len \div REGION_SECTOR_BYTES_LENGTH
       IN  \A released \in {SetRange(region.used_sectors, First(j), Count(j), FALSE)} :
             (/\ ResizedSlot /\ last'.op = "write"
              /\ SlabLength(last'.tag) <= CHUNK_MAXIMUM_BYTES_LENGTH
              /\ Count(j) # required_sectors
              /\ \E start \in FreedSectors :
                    /\ IsLowestFreeRun(released, total_sectors, required_sectors, start)
                    /\ \A k \in start .. start + required_sectors - 1 : k \in FreedSectors)
             => /\ last'.res.kind = "Ok"
                /\ region'.chunks_metadata[j].start_sector_index \in FreedSectors
                /\ region'.chunks_metadata[j].start_sector_index + required_sectors - 1
                     \in FreedSectors
                /\ region'.chunks_metadata[j].sectors = required_sectors
                /\ region'.source.len = region.source.len]_vars

C14_FirstWrite ==
    [][(/\ region = load(EmptySource).region
        /\ last'.op = "write"
        /\ SlabLength(last'.tag) < REGION_SECTOR_BYTES_LENGTH)
       => /\ last'.res.kind = "Ok"
          /\ region'.source.len = REGION_HEADER_BYTES_LENGTH + REGION_SECTOR_BYTES_LENGTH
          /\ region'.used_sectors = <<TRUE, TRUE, TRUE>>
          /\ region'.chunks_metadata[LastSlot'].start_sector_index = 2
          /\ region'.chunks_metadata[LastSlot'].sectors = 1]_vars

\* the first call on the empty source was such a write
C14_Witness ==
    /\ ops = 1 /\ last.op = "write" /\ last.res.kind = "Ok"
    /\ SlabLength(last.tag) < REGION_SECTOR_BYTES_LENGTH
    /\ is_empty(last.was)
    /\ region.source.len = 12288
    /\ Present(LastSlot)

(* C15: read_chunk(x,z) on a slot whose metadata is absent (sector_count   *)
(* 0) fails with ChunkNotFound carrying exactly the requested coordinates,  *)
(* without reading from the source (its cursor stays where it was) and      *)
(* without changing the metadata table, the bitmap or the file.             *)
C15_ChunkNotFound ==
    [][(last'.op = "read" /\ Count(LastSlot') = 0)
       => /\ last'.res = NotFound(LastCoord')
          /\ ~panicked'
          /\ region' = region]_vars

\* an absent slot was read while another slot is present
C15_Witness ==
    /\ last.op = "read" /\ last.was.sectors = 0
    /\ last.res.kind = "ChunkNotFound"
    /\ \E j \in Slots : Present(j)
    /\ region.source.pos > 0

(* C16: write_chunk of a payload whose slab length L exceeds 256 * 4096     *)
(* bytes fails with LengthExceedsMaximum{length: L} and leaves the metadata *)
(* table, the sector bitmap and every chunk slab unchanged: the slot keeps  *)
(* its previous state and its previous payload.                             *)
C16_TooLongRejected ==
    [][(last'.op = "write" /\ SlabLength(last'.tag) > 256 * REGION_SECTOR_BYTES_LENGTH)
       => /\ last'.res = [kind |-> "LengthExceedsMaximum",
                          length |-> SlabLength(last'.tag)]
          /\ ~panicked'
          /\ region'.chunks_metadata = region.chunks_metadata
          /\ region'.used_sectors = region.used_sectors
          /\ region'.source.runs = region.source.runs
          /\ region'.source.ov = region.source.ov
          /\ \A c \in Coords : Reads(region', c) = Reads(region, c)]_vars

\* a too long payload was refused on a slot that still reads back its tag
C16_Witness ==
    /\ last.op = "write" /\ last.res.kind = "LengthExceedsMaximum"
    /\ written[LastSlot] # NoTag
    /\ Reads(region, LastCoord) = Found(written[LastSlot])

\* the limit read_chunk holds the stored length of slot i against
MaximumLength(i) == Min(Count(i) * REGION_SECTOR_BYTES_LENGTH, 256 * REGION_SECTOR_BYTES_LENGTH)

\* the 4-byte length stored at the start of slot i's range, where the file holds one
HasStoredLength(i) == First(i) * REGION_SECTOR_BYTES_LENGTH + 4 <= region.source.len
StoredLength(i) == WordAt(region.source, First(i), 0)

(* C17: read_chunk on a present slot whose stored 4-byte length exceeds     *)
(* maximum = min(sector_count * 4096, 256 * 4096) fails with                *)
(* LengthExceedsMaximum{length, maximum} before any payload byte is read; a *)
(* stored length that does not exceed the maximum never produces this       *)
(* error.                                                                   *)
C17_StoredLengthChecked ==
    [][LET i == LastSlot'
       IN  (~panicked /\ last'.op = "read" /\ Present(i) /\ HasStoredLength(i))
           => IF StoredLength(i) > MaximumLength(i)
              THEN /\ last'.res = [kind |-> "LengthExceedsMaximum",
                                   length |-> StoredLength(i),
                                   maximum_length |-> MaximumLength(i)]
                   /\ region'.source.pos = First(i) * REGION_SECTOR_BYTES_LENGTH + 4
                   /\ region' = [region EXCEPT !.source.pos = region'.source.pos]
              ELSE last'.res.kind # "LengthExceedsMaximum"]_vars

\* a slot recorded with one sector, whose stored length is far beyond it, was read
C17_Witness ==
    /\ last.op = "read" /\ last.res.kind = "LengthExceedsMaximum"
    /\ last.res.length > last.res.maximum_length
    /\ last.res.maximum_length = Count(LastSlot) * REGION_SECTOR_BYTES_LENGTH
    /\ region.source.pos = First(LastSlot) * REGION_SECTOR_BYTES_LENGTH + 4

\* the scheme byte stored behind slot i's length word, where the file holds one
HasStoredScheme(i) == First(i) * REGION_SECTOR_BYTES_LENGTH + 5 <= region.source.len
StoredScheme(i) == Byte4At(region.source, First(i))

(* C18: read_chunk on a present slot whose slab passes the length check     *)
(* fails with UnsupportedCompressionScheme carrying the stored scheme byte  *)
(* when that byte is neither 1 nor 2; scheme 1 hands the payload to the     *)
(* gzip decoder and scheme 2 to the zlib decoder.                           *)
C18_SchemeSelectsDecoder ==
    [][LET i == LastSlot'
       IN  (/\ ~panicked /\ last'.op = "read" /\ Present(i)
            /\ HasStoredScheme(i) /\ StoredLength(i) <= MaximumLength(i))
           => \A scheme \in {StoredScheme(i)} : \A buffer_len \in {StoredLength(i) - 1} :
                 last'.res =
                    IF scheme = GZIP_COMPRESSION_TYPE
                    THEN read_gzip_compound_tag(region.source, First(i), buffer_len)
                    ELSE IF scheme = ZLIB_COMPRESSION_TYPE
                    THEN read_zlib_compound_tag(region.source, First(i), buffer_len)
                    ELSE [kind |-> "UnsupportedCompressionScheme",
                          compression_scheme |-> scheme]]_vars

(* C19: load of a source that is empty or shorter than 8192 bytes succeeds  *)
(* with every slot absent and a bitmap of exactly two bits, both occupied,  *)
(* whatever bytes the source holds.                                         *)
C19_ShortSourceLoadsEmpty ==
    [][(last.op = "none" /\ last'.op = "load"
            /\ region.source.len < REGION_HEADER_BYTES_LENGTH)
       => /\ last'.res.kind = "Ok"
          /\ \A i \in Slots : is_empty(region'.chunks_metadata[i])
          /\ region'.used_sectors = <<TRUE, TRUE>>]_vars

\* loaded: a source of 8191 bytes whose header words name a present slot
C19_Witness ==
    /\ last.op = "load" /\ last.res.kind = "Ok"
    /\ region.source.len = REGION_HEADER_BYTES_LENGTH - 1
    /\ WordAt(region.source, 0, metadata_index(0, 0)) # 0
    /\ region.used_sectors = <<TRUE, TRUE>>
    /\ \A i \in Slots : ~Present(i)

(* C20: for a slot i and a metadata value with start_sector < 2^24 and      *)
(* sector_count < 256, update_metadata writes the location word             *)
(* (start_sector << 8) | sector_count at byte 4i and the timestamp at byte  *)
(* 4096 + 4i and changes nothing else of the source; a header read that     *)
(* follows returns exactly that metadata for slot i.                        *)
C20_HeaderEntryWritten ==
    [][/\ last'.op = "update"
          => LET i == LastSlot'
                 metadata == last'.metadata
             IN  /\ WordAt(region'.source, 0, i)
                      = metadata.start_sector_index * U8 + metadata.sectors
                 /\ WordAt(region'.source, 1, i) = metadata.last_modified_timestamp
                 /\ OtherWords(region'.source, 0, 0, i) = OtherWords(region.source, 0, 0, i)
                 /\ region'.source.runs = region.source.runs
                 /\ region'.source.len = region.source.len
       /\ (last.op = "update" /\ last'.op = "read_header")
          => /\ last'.res.kind = "Ok"
             /\ last'.res.chunks_metadata[LastSlot] = last.metadata]_vars

\* a header read returned the largest metadata value for slot (15,15) of the
\* stored file, next to the entries of the other slots
C20_Witness ==
    /\ last.op = "read_header"
    /\ last.res.chunks_metadata[metadata_index(15, 15)]
         = ChunkMetadata_new(8388607, U8 - 1, 2147483647)
    /\ last.res.chunks_metadata[metadata_index(0, 0)] = ChunkMetadata_new(3, 1, Epoch - 2)
    /\ region.source.len > REGION_HEADER_BYTES_LENGTH

\* the words of a source the model keeps, by sector and word index
AllWords(source) ==
    [k \in (0 .. SectorsOf(source.len) - 1) \X Words |-> WordAt(source, k[1], k[2])]

(* C21: extend_len(new_len) on a source of length len, at any cursor         *)
(* position, leaves the source with length max(len, new_len), the appended  *)
(* bytes zero, the existing bytes unchanged and the cursor where it was     *)
(* before the call.                                                         *)
C21_ExtendLenRestoresCursor ==
    [][last'.op = "extend_len"
       => /\ region'.source.len = Max(region.source.len, last'.new_len)
          /\ region'.source.runs = region.source.runs
          /\ \A k \in DOMAIN AllWords(region'.source) :
                AllWords(region'.source)[k]
                  = IF k \in DOMAIN AllWords(region.source)
                    THEN AllWords(region.source)[k] ELSE 0
          /\ region'.source.pos = region.source.pos]_vars

(* C22: for a global chunk coordinate c of the 32-bit signed range,         *)
(* negative values included, region = c >> 5 and local = c & 31 satisfy     *)
(* 0 <= local < 32 and region * 32 + local = c.                             *)
C22_RegionAndLocalSplit ==
    last.op = "from_chunk_position"
    => /\ last.region_chunk_position.x \in 0 .. 31
       /\ last.region_chunk_position.z \in 0 .. 31
       /\ last.region_position.x * 32 + last.region_chunk_position.x = last.chunk_x
       /\ last.region_position.z * 32 + last.region_chunk_position.z = last.chunk_z

\* the smallest coordinate and one just below a region border were split
C22_Witness ==
    /\ last.op = "from_chunk_position"
    /\ last.chunk_x = -2147483647 - 1 /\ last.region_position.x = -67108864
    /\ last.chunk_z = -33 /\ last.region_position.z = -2
    /\ last.region_chunk_position = [x |-> 0, z |-> 31]

(* C23: for every slab length L that passes write_chunk's size check        *)
(* (L <= 1 MiB) the sector count find_place computes, allocates and records *)
(* for the slot is floor(L / 4096) + 1, and the 8-bit arithmetic of the     *)
(* count neither overflows nor wraps.                                       *)
C23_SectorCountExact ==
    [][LET i == LastSlot'
           required_sectors == RequiredSectors(SlabLength(last'.tag))
       IN  (/\ ~panicked /\ last'.op = "write"
            /\ SlabLength(last'.tag) <= CHUNK_MAXIMUM_BYTES_LENGTH)
           => /\ last'.res.kind = "Ok"
                 => region'.chunks_metadata[i].sectors = required_sectors
              /\ required_sectors >= U8 => last'.res.kind # "panic"]_vars

(* C24: after any sequence of successful writes, every sector in the range  *)
(* [start_sector, start_sector + sector_count) of every present slot is     *)
(* marked occupied in the in-memory bitmap.                                 *)
C24_LiveSectorsMarked ==
    OnlySuccessfulWrites
        => \A i \in Slots :
              Present(i)
                  => \A sector \in First(i) .. First(i) + Count(i) - 1 :
                        /\ sector < Len(region.used_sectors)
                        /\ region.used_sectors[sector + 1]

\* the source holds the whole slab of the running call where find_place put
\* it: length prefix, scheme byte, stream and padding up to a sector's end
SlabWritten(source, call) ==
    LET start == call.metadata.start_sector_index
    IN  /\ WordAt(source, start, 0) = 1 + call.tag.zlen
        /\ Byte4At(source, start) = ZLIB_COMPRESSION_TYPE
        /\ StreamIntact(source, start, call.tag)
        /\ source.len >= (start + SectorsOf(call.length)) * REGION_SECTOR_BYTES_LENGTH

(* C25: within one write_chunk call the whole slab (length prefix, scheme    *)
(* byte, compressed data, padding) is written before the slot's location    *)
(* word and the location word before the timestamp word; the header entry   *)
(* of the slot is not written by a call whose payload write failed.         *)
C25_PayloadBeforeHeader ==
    [][LET i == LastSlotOf(last')
       IN  /\ (last'.op = "write" /\ last'.stage = "location" /\ last.stage = "padding")
              => SlabWritten(region.source, last)
           /\ (last'.op = "write" /\ last'.stage = "timestamp" /\ last.stage = "location")
              => WordAt(region.source, 0, i)
                   = last.metadata.start_sector_index * U8 + last.metadata.sectors
           /\ (last'.op = "write" /\ last'.res.kind \in {"running", "IOError"}
                  /\ last'.stage \in {"placed", "length", "buffer", "padding"})
              => HeaderWords(region'.source, i) = last'.header_was]_vars

\* the file was opened again after a write_chunk call stopped between its
\* payload write and its header update
InterruptedAfterPayload ==
    /\ last.op = "load" /\ last.res.kind = "Ok"
    /\ "stage" \in DOMAIN last
    /\ last.stage = "padding"

(* C26: when write_chunk is interrupted after its payload write and before  *)
(* its header update, a later load of the file and read_chunk of that slot  *)
(* through the stale header entry returns a complete valid slab (the old or *)
(* the new payload) or fails the length check with LengthExceedsMaximum; it *)
(* never takes bytes from the middle of a slab for a length-prefixed chunk. *)
C26_StaleEntryReadsWholeSlab ==
    [][(/\ InterruptedAfterPayload
        /\ last'.op = "read" /\ LastCoord' = LastCoord
        /\ Present(LastSlot))
       => \/ last'.res = Found(last.tag)
          \/ written[LastSlot] # NoTag /\ last'.res = Found(written[LastSlot])
          \/ last'.res.kind = "LengthExceedsMaximum"]_vars

\* sector s lies in the range of a non-empty entry of the table
InSomeRange(chunks_metadata, s) ==
    \E i \in DOMAIN chunks_metadata :
        /\ ~is_empty(chunks_metadata[i])
        /\ chunks_metadata[i].start_sector_index <= s
        /\ s < chunks_metadata[i].start_sector_index + chunks_metadata[i].sectors

(* C27: the bitmap load builds for the sectors of the source and the        *)
(* metadata table read from its header has bit s set if and only if s is 0  *)
(* or 1 or s lies in [start_sector, start_sector + sector_count) of some    *)
(* non-empty entry of the table.                                            *)
C27_BitmapFromTable ==
    [][(last.op = "none" /\ last'.op = "load" /\ last'.res.kind # "IOError")
       => /\ last'.res.kind = "Ok"
          /\ \A s \in 0 .. Len(region'.used_sectors) - 1 :
                region'.used_sectors[s + 1]
                    <=> (s \in {0, 1} \/ InSomeRange(region'.chunks_metadata, s))]_vars

(* C28: read_chunk, whether it succeeds or fails, leaves the metadata       *)
(* table, the sector bitmap, the file length and every byte of the file     *)
(* unchanged; only the cursor of the source may move.                       *)
C28_ReadChangesNothing ==
    [][last'.op = "read"
       => /\ region'.chunks_metadata = region.chunks_metadata
          /\ region'.used_sectors = region.used_sectors
          /\ region'.source.len = region.source.len
          /\ region'.source.runs = region.source.runs
          /\ region'.source.ov = region.source.ov]_vars

\* reads have failed on a present slot and succeeded on another, and the
\* cursor stands behind the slab that was read
C28_Witness ==
    /\ last.op = "read" /\ last.res.kind = "Ok"
    /\ region.source.pos
         = First(LastSlot) * REGION_SECTOR_BYTES_LENGTH + 4 + StoredLength(LastSlot)
    /\ \E j \in Slots \ {LastSlot} :
          Present(j) /\ StoredLength(j) > MaximumLength(j)

(* C29: every slab write_chunk writes carries the scheme byte 2 (zlib) and  *)
(* a 4-byte length equal to L - 4, that is 1 for the scheme byte plus the   *)
(* number of compressed bytes; read_chunk consumes exactly length - 1       *)
(* compressed bytes behind the scheme byte, so that both agree on where the *)
(* compressed data ends.                                                    *)
C29_LengthPrefixAgrees ==
    [][/\ (last'.op = "write" /\ last'.stage = "buffer" /\ last.stage = "length")
          => LET start == last'.metadata.start_sector_index
             IN  /\ WordAt(region'.source, start, 0) = SlabLength(last'.tag) - 4
                 /\ WordAt(region'.source, start, 0) = 1 + last'.tag.zlen
                 /\ Byte4At(region'.source, start) = ZLIB_COMPRESSION_TYPE
                 /\ region'.source.pos
                      = start * REGION_SECTOR_BYTES_LENGTH + 4 + 1 + last'.tag.zlen
       /\ (last'.op = "read" /\ last'.res.kind
               \in {"Ok", "TagDecodeError", "UnsupportedCompressionScheme"})
          => region'.source.pos
               = First(LastSlot') * REGION_SECTOR_BYTES_LENGTH + 4 + 1
                   + (StoredLength(LastSlot') - 1)
       /\ (/\ last.op = "write" /\ last.res.kind = "Ok"
           /\ last'.op = "read" /\ LastCoord' = LastCoord
           /\ last'.res = Found(last.tag))
          => region'.source.pos
               = First(LastSlot') * REGION_SECTOR_BYTES_LENGTH + 4 + 1
                   + last.tag.zlen]_vars

\* a slab of two sectors written step by step to slot (2,0) has been read
\* back
C29_Witness ==
    /\ last.op = "read" /\ last.res.kind = "Ok" /\ LastCoord = <<2, 0>>
    /\ last.res.tag = written[LastSlot]
    /\ SlabLength(last.res.tag) = REGION_SECTOR_BYTES_LENGTH
    /\ StoredLength(LastSlot) = SlabLength(last.res.tag) - 4
    /\ Byte4At(region.source, First(LastSlot)) = ZLIB_COMPRESSION_TYPE
    /\ region.source.pos = (First(LastSlot) + 1) * REGION_SECTOR_BYTES_LENGTH

(* C30: behind the length prefix and the scratch buffer write_chunk writes  *)
(* sector_size - (L mod sector_size) zero padding bytes when L mod          *)
(* sector_size is not 0, and no padding bytes at all when it is 0.          *)
C30_PaddingToSectorEnd ==
    [][(last'.op = "write" /\ last'.stage = "padding" /\ last.stage = "buffer")
       => region'.source.pos - region.source.pos
            = IF last.length % REGION_SECTOR_BYTES_LENGTH # 0
              THEN REGION_SECTOR_BYTES_LENGTH
                     - (last.length % REGION_SECTOR_BYTES_LENGTH)
              ELSE 0]_vars

\* the source with zero bytes appended up to the header's 8192 bytes
ZeroExtended(source) == [source EXCEPT !.len = REGION_HEADER_BYTES_LENGTH]

\* two sources hold the same bytes
SameBytes(a, b) == a.len = b.len /\ AllWords(a) = AllWords(b)

(* C31: load never modifies the source, neither its bytes nor its length;   *)
(* a source shorter than 8192 bytes is extended, with zero bytes, to        *)
(* exactly 8192 bytes only by the first write_chunk call, before any slab   *)
(* is allocated: a read leaves the length alone, a write refused for its    *)
(* size leaves exactly the zero-extended source, and every write ends as it *)
(* does on a handle whose source had those 8192 bytes from the start.       *)
C31_LoadKeepsSource ==
    [][/\ (last.op = "none" /\ last'.op = "load")
            => SameBytes(region'.source, region.source)
       /\ (last'.op = "read" /\ ops' = ops + 1)
            => region'.source.len = region.source.len
       /\ (/\ last'.op = "write" /\ ops' = ops + 1 /\ ~panicked'
           /\ region.source.len < REGION_HEADER_BYTES_LENGTH)
            => /\ region'.source.len >= REGION_HEADER_BYTES_LENGTH
               /\ last'.res.kind = "LengthExceedsMaximum"
                    => SameBytes(region'.source, ZeroExtended(region.source))
               /\ \E now \in Timestamps(ops) :
                     \A on_header \in {write_chunk([region EXCEPT !.source = ZeroExtended(@)],
                                                   last'.x, last'.z, last'.tag, now,
                                                   overflow_checks)} :
                        /\ last'.res.kind = on_header.res
                        /\ SameBytes(region'.source, on_header.region.source)
                        /\ region'.chunks_metadata = on_header.region.chunks_metadata
                        /\ region'.used_sectors = on_header.region.used_sectors]_vars

\* the first call on a handle of a source cut to 4096 bytes was a successful
\* write: the stale location word of another slot is still in the header
C31_Witness ==
    /\ ops = 1 /\ last.op = "write" /\ last.res.kind = "Ok"
    /\ region.source.len = REGION_HEADER_BYTES_LENGTH + REGION_SECTOR_BYTES_LENGTH
    /\ First(LastSlot) = 2
    /\ \E i \in Slots \ {LastSlot} :
          WordAt(region.source, 0, i) # 0 /\ ~Present(i)

(* C32: for coordinates x, z in [0, 32) the slot index is x + z * 32, a     *)
(* bijection onto [0, 1024); read_chunk and write_chunk called with a       *)
(* coordinate >= 32 fail, and leave the metadata of every slot, the bitmap  *)
(* and every byte the source held as they were: they never act on another   *)
(* slot.                                                                    *)
C32_CoordinatesBounded ==
    [][/\ \A i \in 0 .. REGION_CHUNKS - 1 :
             metadata_index(i % 32, i \div 32) = i
       /\ \A x \in 0 .. 31, z \in 0 .. 31 :
             /\ metadata_index(x, z) \in 0 .. REGION_CHUNKS - 1
             /\ metadata_index(x, z) % 32 = x /\ metadata_index(x, z) \div 32 = z
       /\ (ops' = ops + 1 /\ ~(32 > last'.x /\ 32 > last'.z))
            => /\ last'.res.kind # "Ok"
               /\ region'.chunks_metadata = region.chunks_metadata
               /\ region'.used_sectors = region.used_sectors
               /\ \A k \in DOMAIN AllWords(region'.source) :
                     AllWords(region'.source)[k]
                       = IF k \in DOMAIN AllWords(region.source)
                         THEN AllWords(region.source)[k] ELSE 0]_vars

(* C33: a write attempted through a read-only provider, the zip-backed one, *)
(* is refused with an error value, not by a panic, and changes nothing of   *)
(* the region file.                                                         *)
C33_ReadOnlyRefusesWrite ==
    [][(last'.op = "write" /\ ops' = ops + 1)
       => /\ ~panicked'
          /\ last'.res.kind \notin {"Ok", "panic"}
          /\ region' = region]_vars

(* C34: after any sequence of successful writes on a handle loaded from an *)
(* empty source, every bitmap bit with index >= 2 that is marked occupied   *)
(* lies inside the range of some present slot: no sector is occupied but    *)
(* owned by no slot.                                                        *)
C34_NoLeakedSector ==
    OnlySuccessfulWrites
        => \A s \in 2 .. Len(region.used_sectors) - 1 :
              region.used_sectors[s + 1] => InSomeRange(region.chunks_metadata, s)

(* C35: a write_chunk to slot i changes only slot i's entry of the metadata *)
(* table in memory and only slot i's location and timestamp words of the    *)
(* header in the source; the entry and the header words of every other slot *)
(* j # i are unchanged.                                                     *)
C35_OnlyOwnHeaderEntry ==
    [][(last'.op = "write" /\ ops' = ops + 1 /\ ~panicked')
       => \A j \in Slots \ {LastSlot'} :
             /\ region'.chunks_metadata[j] = region.chunks_metadata[j]
             /\ HeaderWords(region'.source, j) = HeaderWords(region.source, j)]_vars

(* C36: for every write that takes the extension path with                  *)
(* e = required_sectors - tail_free sectors to add, 1 <= e <= 255, the      *)
(* extension length computed in 16-bit arithmetic is e * 4096 bytes without *)
(* overflow: the write does not abort, and the file length after it is the  *)
(* length before (the header's 8192 bytes at least) plus e * 4096.          *)
C36_ExtensionLength ==
    [][LET i == LastSlot'
           required_sectors == RequiredSectors(SlabLength(last'.tag))
           before == Max(region.source.len, REGION_HEADER_BYTES_LENGTH)
           total_sectors == before \div REGION_SECTOR_BYTES_LENGTH
           released == SetRange(region.used_sectors, First(i), Count(i), FALSE)
           e == required_sectors - TailFree(released, total_sectors)
       IN  (/\ ~panicked /\ last'.op = "write" /\ ops' = ops + 1
            /\ SlabLength(last'.tag) <= CHUNK_MAXIMUM_BYTES_LENGTH
            /\ Count(i) # required_sectors
            /\ NoFreeRun(released, total_sectors, required_sectors)
            /\ 1 <= e /\ e <= 255)
           => /\ ~panicked'
              /\ region'.source.len = before + e * REGION_SECTOR_BYTES_LENGTH]_vars

(* C37: if write_chunk returns an I/O error (from extending, seeking or     *)
(* writing the source), the metadata table in memory and the sector bitmap  *)
(* are the same as before the call: the slot's old range is still marked    *)
(* occupied and no new sector is marked occupied.                           *)
C37_IoErrorKeepsState ==
    [][(Running /\ last'.res.kind = "IOError")
       => /\ region'.chunks_metadata = last.table_was
          /\ region'.used_sectors = last.bitmap_was]_vars

(* C38: read_chunk on a present slot never aborts on corrupt slab contents: *)
(* for every stored length value, 0 included, it returns a payload or a     *)
(* ChunkReadError, and the size length - 1 of the buffer it allocates for   *)
(* the compressed bytes lies between 0 and the maximum length it checked.   *)
C38_CorruptSlabNoAbort ==
    [][LET i == LastSlot'
       IN  (/\ ~panicked /\ last'.op = "read" /\ ops' = ops + 1
            /\ Present(i) /\ HasStoredLength(i))
           => /\ last'.res.kind # "panic"
              /\ (HasStoredScheme(i) /\ StoredLength(i) <= MaximumLength(i))
                    => ~Overflows(StoredLength(i) - 1, MaximumLength(i) + 1)]_vars

(* C39: after any sequence of successful writes on a handle loaded from an *)
(* empty source, the range of every present slot lies inside the file:      *)
(* start_sector >= 2 and (start_sector + sector_count) * 4096 <= file       *)
(* length.                                                                  *)
C39_RangesInsideFile ==
    OnlySuccessfulWrites
        => \A i \in Slots :
              Present(i)
                  => /\ First(i) >= 2
                     /\ (First(i) + Count(i)) * REGION_SECTOR_BYTES_LENGTH
                            <= region.source.len

\* three successful writes: a slot at the first sector behind the header, and
\* another of more than one sector whose range ends at the end of the file
C39_Witness ==
    /\ ops = MaxOps /\ last.op = "write" /\ OnlySuccessfulWrites
    /\ \E i, j \in Slots :
          /\ i # j /\ Present(i) /\ Present(j)
          /\ First(i) = 2
          /\ Count(j) >= 2
          /\ (First(j) + Count(j)) * REGION_SECTOR_BYTES_LENGTH = region.source.len

(* C40: load parses the header from the bytes [0, 8192) of the source       *)
(* whatever the cursor position is when it is called (at 0, in the middle   *)
(* or at the end of the file): its outcome and the metadata table depend on *)
(* the bytes of the source only, so they are those of a load with the       *)
(* cursor at 0.                                                             *)
C40_LoadIgnoresCursor ==
    [][(last.op = "none" /\ last'.op = "load")
       => \A at_start \in {load(seek_start(region.source, 0))} :
             /\ last'.res.kind = at_start.res
             /\ region'.chunks_metadata = at_start.region.chunks_metadata]_vars

====
